---- MODULE Spec2Model ----
(***************************************************************************)
(* Group scheduling helpers of cinn/hlir/framework/op_lowering_util.cc:    *)
(* the graph queries, BuildVirtualConsumer, TopologicalOrder, CanbeInline   *)
(* and GetMasterToComputeAt, run on a bounded family of fused groups; the  *)
(* reduction loop planners LoopAssignReduceWithoutLast and                 *)
(* LoopAssignReduceWithLast, run on bounded input shapes; the callers of   *)
(* MergeLoops, run on bounded loop lists; MergeLoops itself, run on        *)
(* bounded loop-nest trees; GetMaster and SyncThreadWithShared, run on     *)
(* bounded block lists; and LoopAssignReduce and InsertSyncThread, run on  *)
(* bounded stagings of a reduction.                                        *)
(*                                                                         *)
(* A Node* is a number of NodeIds; utils::NodeCompare orders nodes by id,  *)
(* which is the order of the numbers.  The links of a node are iterated in *)
(* ascending id of the node at their other end.  Every operator node has   *)
(* one output NodeData, so shape_dict is keyed by the node.                *)
(***************************************************************************)
EXTENDS Integers, Sequences, FiniteSets, TLC

\* Number of operator nodes of the graph a group is cut from.
NumNodes == 3

\* Largest element count of a tensor in shape_dict.
MaxNumel == 2

\* nullptr
NULL == 0

NodeIds == 1..NumNodes

Numels == 1..MaxNumel

VARIABLES
    edges,              \* the graph: <<producer, consumer>> pairs of operator nodes
    op,                 \* node -> node->op()->name
    nodes_set,          \* group->NodeSet()
    output_nodes,       \* group->output_nodes
    pc,                 \* position in the lowering of the group
    virtual_consumers,  \* the map BuildVirtualConsumer returned
    g_node,             \* BuildVirtualConsumer's anchor (NULL when none was found)
    rest,               \* TopologicalOrder's local nodes_set
    tmp_node_set,       \* the part of the sorted snapshot the current pass has yet to visit
    nodes_in_order,     \* TopologicalOrder's result so far
    call,               \* the last call of the function under study: its arguments and its result
    nodes_inline,       \* the nodes the lowering has inlined so far
    master,             \* node -> the master GetMasterToComputeAt returned for it
    shape_dict_         \* the entries of the lowering's shape_dict_ looked up so far

vars == <<edges, op, nodes_set, output_nodes, pc, virtual_consumers,
          g_node, rest, tmp_node_set, nodes_in_order, call,
          nodes_inline, master, shape_dict_>>

schedule == <<nodes_inline, master, shape_dict_>>

group == <<edges, op, nodes_set, output_nodes>>

----------------------------------------------------------------------------
\* Operators and their pattern kinds.

\* Operator::GetAttrs<OpPatternKind>("OpPattern")
op_pattern_dict(name) ==
    CASE name = "reduce_sum" -> "kReduction"
      [] name = "conv2d" -> "kOutFusible"
      [] OTHER -> "kElementWise"

IsReduction(node) == op_pattern_dict(op[node]) = "kReduction"

IsConstOpScalarOnly(node) == op[node] \in {"const_scalar"}

IsConstOp(node) == op[node] \in {"const_scalar", "fill_constant", "arange"}

\* group->op_pattern_kind: the strictest kind among the members.
GroupPatternKind(ops, ns) ==
    IF \E n \in ns : op_pattern_dict(ops[n]) = "kOutFusible" THEN "kOutFusible"
    ELSE IF \E n \in ns : op_pattern_dict(ops[n]) = "kReduction" THEN "kReduction"
    ELSE "kElementWise"

op_pattern_kind == GroupPatternKind(op, nodes_set)

----------------------------------------------------------------------------
\* Graph queries.

RECURSIVE SortById(_)
SortById(S) ==
    IF S = {} THEN <<>>
    ELSE LET m == CHOOSE x \in S : \A y \in S : x <= y
         IN  <<m>> \o SortById(S \ {m})

Range(s) == {s[i] : i \in 1..Len(s)}

GetConsumers(node) == SortById({e[2] : e \in {d \in edges : d[1] = node}})

GetProducers(node) == SortById({e[1] : e \in {d \in edges : d[2] = node}})

GetConsumersInSet(node, node_set) ==
    SelectSeq(GetConsumers(node), LAMBDA c : c \in node_set)

GetProducersInSet(node, node_set) ==
    SelectSeq(GetProducers(node), LAMBDA p : p \in node_set)

\* The Visitor argument of FindReducerInRoute, named by the function passed.
Visit(visitor, node, node_set) ==
    IF visitor = "GetConsumersInSet" THEN GetConsumersInSet(node, node_set)
    ELSE GetProducersInSet(node, node_set)

\* The while loop of FindReducerInRoute over the queue candidates.
RECURSIVE FindReducerInRouteLoop(_, _, _)
FindReducerInRouteLoop(candidates, node_set, visitor) ==
    IF candidates = <<>> THEN NULL
    ELSE LET visited == Visit(visitor, Head(candidates), node_set)
             reducers == SelectSeq(visited, IsReduction)
         IN  IF reducers # <<>> THEN Head(reducers)
             ELSE FindReducerInRouteLoop(Tail(candidates) \o visited, node_set, visitor)

FindReducerInRoute(node, node_set, visitor) ==
    FindReducerInRouteLoop(<<node>>, node_set, visitor)

FindNearestReducerConsumersOnly(node, node_set) ==
    FindReducerInRoute(node, node_set, "GetConsumersInSet")

FindNearestReducer(node, node_set) ==
    LET reducer == FindReducerInRoute(node, node_set, "GetConsumersInSet")
    IN  IF reducer # NULL THEN reducer
        ELSE FindReducerInRoute(node, node_set, "GetProducersInSet")

\* for (auto iter = nodes_in_order.rbegin(); ...) return the first Reduction
RECURSIVE FindGlobalReducer(_)
FindGlobalReducer(order) ==
    IF order = <<>> THEN NULL
    ELSE IF IsReduction(order[Len(order)]) THEN order[Len(order)]
    ELSE FindGlobalReducer(SubSeq(order, 1, Len(order) - 1))

----------------------------------------------------------------------------
\* BuildVirtualConsumer.

\* The output nodes the first loop may stop at.  group->output_nodes is an
\* unordered set of pointers, so the first qualifying node of its iteration
\* is any qualifying node.
AnchorCandidatesWithConsumers ==
    {t_node \in output_nodes :
        /\ ~IsReduction(t_node)
        /\ FindReducerInRoute(t_node, nodes_set, "GetProducersInSet") # NULL}

AnchorCandidates ==
    {t_node \in output_nodes :
        /\ ~IsReduction(t_node)
        /\ FindReducerInRoute(t_node, nodes_set, "GetProducersInSet") # NULL
        /\ Len(GetConsumersInSet(t_node, nodes_set)) = 0}

\* The for loop over GetProducersInSet(candidate) of the backward search:
\* returns the reducer found (or NULL) and the queue and visited set it leaves.
RECURSIVE ScanProducers(_, _, _)
ScanProducers(producers, candidates, visited) ==
    IF producers = <<>> THEN [reducer |-> NULL, candidates |-> candidates, visited |-> visited]
    ELSE LET producer == Head(producers)
         IN  IF producer \in visited
             THEN ScanProducers(Tail(producers), candidates, visited)
             ELSE LET reducer == FindReducerInRoute(producer, nodes_set, "GetConsumersInSet")
                  IN  IF reducer # NULL
                      THEN [reducer |-> reducer, candidates |-> candidates, visited |-> visited]
                      ELSE ScanProducers(Tail(producers), Append(candidates, producer),
                                         visited \cup {producer})

\* "from producers find reducer consumer": the while loop over candidates.
RECURSIVE FindHorizontalReducer(_, _)
FindHorizontalReducer(candidates, visited) ==
    IF candidates = <<>> THEN NULL
    ELSE LET scan == ScanProducers(GetProducersInSet(Head(candidates), nodes_set),
                                   Tail(candidates), visited)
         IN  IF scan.reducer # NULL THEN scan.reducer
             ELSE FindHorizontalReducer(scan.candidates, scan.visited)

VirtualConsumerOfAnchorOnly(t_node, anchor) ==
    IF IsReduction(t_node) THEN anchor
    ELSE IF FindNearestReducer(t_node, nodes_set) # NULL THEN NULL
    ELSE IF t_node # anchor /\ anchor # NULL THEN anchor
    ELSE NULL

VirtualConsumerOfWithoutRouteTest(t_node, anchor) ==
    IF IsReduction(t_node) THEN anchor
    ELSE LET reducer == FindHorizontalReducer(<<t_node>>, {t_node})
         IN  IF reducer # NULL THEN reducer
             ELSE IF t_node # anchor /\ anchor # NULL THEN anchor
             ELSE NULL

\* One iteration of the second loop: the node virtual_consumers[t_node] is
\* set to, NULL when the iteration leaves t_node without an entry.
VirtualConsumerOf(t_node, anchor) ==
    IF IsReduction(t_node) THEN anchor
    ELSE IF FindNearestReducer(t_node, nodes_set) # NULL THEN NULL
    ELSE LET reducer == FindHorizontalReducer(<<t_node>>, {t_node})
         IN  IF reducer # NULL THEN reducer
             ELSE IF t_node # anchor /\ anchor # NULL THEN anchor
             ELSE NULL

EmptyMap == [n \in {} |-> NULL]

\* The map the second loop builds when the first loop found anchor.
VirtualConsumersWith(anchor) ==
    LET keys == {t_node \in output_nodes : VirtualConsumerOf(t_node, anchor) # NULL}
    IN  [t_node \in keys |-> VirtualConsumerOf(t_node, anchor)]

BuildVirtualConsumerAnyKind ==
    /\ pc = "start"
    /\ IF op_pattern_kind = "kElementWise"
       THEN /\ g_node' = NULL
            /\ virtual_consumers' = EmptyMap
       ELSE /\ g_node' \in (IF AnchorCandidates = {} THEN {NULL} ELSE AnchorCandidates)
            /\ virtual_consumers' = VirtualConsumersWith(g_node')
    /\ rest' = nodes_set
    /\ pc' = "order"
    /\ UNCHANGED <<group, tmp_node_set, nodes_in_order, call, schedule>>

BuildVirtualConsumer ==
    /\ pc = "start"
    /\ IF op_pattern_kind # "kReduction"
       THEN /\ g_node' = NULL
            /\ virtual_consumers' = EmptyMap
       ELSE /\ g_node' \in (IF AnchorCandidates = {} THEN {NULL} ELSE AnchorCandidates)
            /\ virtual_consumers' = VirtualConsumersWith(g_node')
    /\ rest' = nodes_set
    /\ pc' = "order"
    /\ UNCHANGED <<group, tmp_node_set, nodes_in_order, call, schedule>>

----------------------------------------------------------------------------
\* TopologicalOrder.

FindConsumersRealOnly(node, node_set, virtuals) == GetConsumersInSet(node, node_set)

FindConsumers(node, node_set, virtuals) ==
    LET consumers == GetConsumersInSet(node, node_set)
    IN  IF node \in DOMAIN virtuals THEN Append(consumers, virtuals[node]) ELSE consumers

TopologicalOrderPassOverGroup ==
    /\ pc = "order"
    /\ tmp_node_set = <<>>
    /\ rest # {}
    /\ tmp_node_set' = SortById(nodes_set)
    /\ UNCHANGED <<group, pc, virtual_consumers, g_node, rest, nodes_in_order, call, schedule>>

\* while (!nodes_set.empty()): take the sorted snapshot tmp_node_set.
TopologicalOrderPass ==
    /\ pc = "order"
    /\ tmp_node_set = <<>>
    /\ rest # {}
    /\ tmp_node_set' = SortById(rest)
    /\ UNCHANGED <<group, pc, virtual_consumers, g_node, rest, nodes_in_order, call, schedule>>

\* One iteration of for (auto node : tmp_node_set).
TopologicalOrderVisit ==
    /\ pc = "order"
    /\ tmp_node_set # <<>>
    /\ LET node == Head(tmp_node_set)
           consumers == FindConsumers(node, rest, virtual_consumers)
           cant_be_erase == \E i \in 1..Len(consumers) : consumers[i] \in rest
       IN  IF cant_be_erase
           THEN UNCHANGED <<nodes_in_order, rest>>
           ELSE /\ nodes_in_order' = Append(nodes_in_order, node)
                /\ rest' = rest \ {node}
    /\ tmp_node_set' = Tail(tmp_node_set)
    /\ UNCHANGED <<group, pc, virtual_consumers, g_node, call, schedule>>

\* return nodes_in_order;
TopologicalOrderReturn ==
    /\ pc = "order"
    /\ tmp_node_set = <<>>
    /\ rest = {}
    /\ pc' = "ordered"
    /\ UNCHANGED <<group, virtual_consumers, g_node, rest, tmp_node_set, nodes_in_order, call, schedule>>

----------------------------------------------------------------------------
\* CanbeInline.  A shape is kept as its element count, the one thing
\* CanbeInline computes from it (std::accumulate with std::multiplies).

Returns(value) == [fatal |-> FALSE, ret |-> value]

\* A failed CHECK or a failed shape_dict.at(): the call does not return.
Fatal == [fatal |-> TRUE, ret |-> FALSE]

\* GetOutputShape can be evaluated: shape_dict.at(GetNodeData(node)->id())
HasOutputShape(node, shape_dict) == node \in DOMAIN shape_dict

GetOutputShape(node, shape_dict) == shape_dict[node]

\* GetInputShape can be evaluated: CHECK(producers.size()) and shape_dict.at()
HasInputShape(node, shape_dict) ==
    /\ GetProducers(node) # <<>>
    /\ Head(GetProducers(node)) \in DOMAIN shape_dict

\* shape_dict.at(GetNodeData(GetProducers(node).front())->id())
GetInputShape(node, shape_dict) == shape_dict[Head(GetProducers(node))]

CanbeInlineConstFirst(node, consumers, reducer, laster, shape_dict) ==
    IF IsConstOp(node) THEN Returns(TRUE)
    ELSE IF node \in output_nodes THEN Returns(FALSE)
    ELSE IF \E i \in 1..Len(consumers) : IsReduction(consumers[i]) THEN Returns(FALSE)
    ELSE IF IsReduction(node) THEN Returns(FALSE)
    ELSE IF Len(consumers) = 1 THEN Returns(TRUE)
    ELSE IF reducer # NULL
    THEN IF /\ FindReducerInRoute(node, nodes_set, "GetConsumersInSet") # NULL
            /\ FindReducerInRoute(node, nodes_set, "GetProducersInSet") = NULL
         THEN IF ~HasOutputShape(node, shape_dict) \/ ~HasInputShape(reducer, shape_dict)
              THEN Fatal
              ELSE Returns(GetOutputShape(node, shape_dict) # GetInputShape(reducer, shape_dict))
         ELSE Returns(FALSE)
    ELSE IF ~HasOutputShape(node, shape_dict) \/ ~HasOutputShape(laster, shape_dict)
         THEN Fatal
         ELSE Returns(GetOutputShape(node, shape_dict) # GetOutputShape(laster, shape_dict))

CanbeInlineSingleFirst(node, consumers, reducer, laster, shape_dict) ==
    IF node \in output_nodes THEN Returns(FALSE)
    ELSE IF IsConstOp(node) THEN Returns(TRUE)
    ELSE IF Len(consumers) = 1 THEN Returns(TRUE)
    ELSE IF \E i \in 1..Len(consumers) : IsReduction(consumers[i]) THEN Returns(FALSE)
    ELSE IF IsReduction(node) THEN Returns(FALSE)
    ELSE IF reducer # NULL
    THEN IF /\ FindReducerInRoute(node, nodes_set, "GetConsumersInSet") # NULL
            /\ FindReducerInRoute(node, nodes_set, "GetProducersInSet") = NULL
         THEN IF ~HasOutputShape(node, shape_dict) \/ ~HasInputShape(reducer, shape_dict)
              THEN Fatal
              ELSE Returns(GetOutputShape(node, shape_dict) # GetInputShape(reducer, shape_dict))
         ELSE Returns(FALSE)
    ELSE IF ~HasOutputShape(node, shape_dict) \/ ~HasOutputShape(laster, shape_dict)
         THEN Fatal
         ELSE Returns(GetOutputShape(node, shape_dict) # GetOutputShape(laster, shape_dict))

CanbeInlineAfterReducerToo(node, consumers, reducer, laster, shape_dict) ==
    IF node \in output_nodes THEN Returns(FALSE)
    ELSE IF IsConstOp(node) THEN Returns(TRUE)
    ELSE IF \E i \in 1..Len(consumers) : IsReduction(consumers[i]) THEN Returns(FALSE)
    ELSE IF IsReduction(node) THEN Returns(FALSE)
    ELSE IF Len(consumers) = 1 THEN Returns(TRUE)
    ELSE IF reducer # NULL
    THEN IF FindReducerInRoute(node, nodes_set, "GetConsumersInSet") # NULL
         THEN IF ~HasOutputShape(node, shape_dict) \/ ~HasInputShape(reducer, shape_dict)
              THEN Fatal
              ELSE Returns(GetOutputShape(node, shape_dict) # GetInputShape(reducer, shape_dict))
         ELSE Returns(FALSE)
    ELSE IF ~HasOutputShape(node, shape_dict) \/ ~HasOutputShape(laster, shape_dict)
         THEN Fatal
         ELSE Returns(GetOutputShape(node, shape_dict) # GetOutputShape(laster, shape_dict))

CanbeInline(node, consumers, reducer, laster, shape_dict) ==
    IF node \in output_nodes THEN Returns(FALSE)
    ELSE IF IsConstOp(node) THEN Returns(TRUE)
    ELSE IF \E i \in 1..Len(consumers) : IsReduction(consumers[i]) THEN Returns(FALSE)
    ELSE IF IsReduction(node) THEN Returns(FALSE)
    ELSE IF Len(consumers) = 1 THEN Returns(TRUE)
    ELSE IF reducer # NULL
    THEN IF /\ FindReducerInRoute(node, nodes_set, "GetConsumersInSet") # NULL
            /\ FindReducerInRoute(node, nodes_set, "GetProducersInSet") = NULL
         THEN IF ~HasOutputShape(node, shape_dict) \/ ~HasInputShape(reducer, shape_dict)
              THEN Fatal
              ELSE Returns(GetOutputShape(node, shape_dict) # GetInputShape(reducer, shape_dict))
         ELSE Returns(FALSE)
    ELSE IF ~HasOutputShape(node, shape_dict) \/ ~HasOutputShape(laster, shape_dict)
         THEN Fatal
         ELSE Returns(GetOutputShape(node, shape_dict) # GetOutputShape(laster, shape_dict))

\* The nodes of the group without a consumer in the group.
Sinks == {n \in nodes_set : Len(GetConsumersInSet(n, nodes_set)) = 0}

\* The node the caller passes as laster, nodes_in_order.front(): the first
\* node in id order with neither a consumer in the group nor a virtual one.
Laster == Head(SortById({n \in Sinks : n \notin DOMAIN virtual_consumers}))

\* None of the rules that look at the node and its consumers alone decides.
ReachesShapeRule(node, consumers) ==
    /\ node \notin output_nodes
    /\ ~IsConstOp(node)
    /\ ~IsReduction(node)
    /\ \A i \in 1..Len(consumers) : ~IsReduction(consumers[i])
    /\ Len(consumers) # 1

\* The entries of shape_dict a call with these arguments may look up.
ShapeKeys(node, consumers, reducer, laster) ==
    IF ~ReachesShapeRule(node, consumers) THEN {}
    ELSE {node} \cup (IF reducer = NULL THEN {laster}
                      ELSE IF GetProducers(reducer) = <<>> THEN {}
                      ELSE {Head(GetProducers(reducer))})

\* A call of CanbeInline by the lowering: node is a node of the group with
\* its consumers in the group, reducer is a Reduction node of the group or
\* null, shape_dict holds a shape for every tensor the call looks up.
CallCanbeInline ==
    /\ pc = "inline"
    /\ \E node \in nodes_set, reducer \in {NULL} \cup {r \in nodes_set : IsReduction(r)} :
          LET consumers == GetConsumersInSet(node, nodes_set)
          IN  \E shape_dict \in [ShapeKeys(node, consumers, reducer, Laster) -> Numels] :
                LET result == CanbeInline(node, consumers, reducer, Laster, shape_dict)
                IN  call' = [node |-> node, consumers |-> consumers, reducer |-> reducer,
                             laster |-> Laster, shape_dict |-> shape_dict,
                             fatal |-> result.fatal, ret |-> result.ret]
    /\ pc' = "inlined"
    /\ UNCHANGED <<group, virtual_consumers, g_node, rest, tmp_node_set, nodes_in_order, schedule>>

----------------------------------------------------------------------------
\* The groups the lowering is run on.

RECURSIVE Reach(_, _)
Reach(E, S) ==
    LET next == S \cup {e[2] : e \in {d \in E : d[1] \in S}}
    IN  IF next = S THEN S ELSE Reach(E, next)

Acyclic(E) == \A e \in E : e[1] \notin Reach(E, {e[2]})

Dags == {E \in SUBSET {e \in NodeIds \X NodeIds : e[1] # e[2]} : Acyclic(E)}

\* The group is the whole graph or the graph without one node.
GroupSets == {NodeIds \ S : S \in {T \in SUBSET NodeIds : Cardinality(T) <= 1}} \ {{}}

HasConsumerIn(E, n, ns) == \E c \in ns : <<n, c>> \in E

HasConsumerOutside(E, n, ns) == \E c \in NodeIds \ ns : <<n, c>> \in E

\* A node whose result leaves the group is a group output: a node with a
\* consumer outside the group, and a node with no consumer inside it.
WellFormedOutputs(E, ns, outs) ==
    /\ outs \subseteq ns
    /\ \A n \in ns : (HasConsumerOutside(E, n, ns) \/ ~HasConsumerIn(E, n, ns)) => n \in outs

NoCall == [node |-> NULL, consumers |-> <<>>, reducer |-> NULL, laster |-> NULL,
           shape_dict |-> EmptyMap, fatal |-> FALSE, ret |-> FALSE]

InitPipeline ==
    /\ pc = "start"
    /\ virtual_consumers = EmptyMap
    /\ g_node = NULL
    /\ rest = {}
    /\ tmp_node_set = <<>>
    /\ nodes_in_order = <<>>
    /\ call = NoCall
    /\ nodes_inline = {}
    /\ master = EmptyMap
    /\ shape_dict_ = EmptyMap

OrderOps == {"elementwise_add", "reduce_sum", "conv2d"}

Init ==
    /\ edges \in Dags
    /\ nodes_set \in GroupSets
    /\ op \in [NodeIds -> OrderOps]
    /\ \A n \in NodeIds \ nodes_set : op[n] = "elementwise_add"
    /\ Cardinality({n \in nodes_set : op[n] = "conv2d"}) <= 1
    /\ output_nodes \in SUBSET nodes_set
    /\ WellFormedOutputs(edges, nodes_set, output_nodes)
    /\ InitPipeline

Next ==
    \/ BuildVirtualConsumer
    \/ TopologicalOrderPass
    \/ TopologicalOrderVisit
    \/ TopologicalOrderReturn

Spec == Init /\ [][Next]_vars

----------------------------------------------------------------------------
\* CanbeInline on its own.  It reads the graph through the queries only and
\* never compares two ids, so the graphs are taken with their nodes numbered
\* along the edges.  The group is the whole graph, the graph is weakly
\* connected, and at most one node with a consumer in the group is an output.

\* Largest number of operator nodes of the graphs CanbeInline is called on.
NumInlineNodes == 5

\* Largest number of edges of those graphs.
MaxInlineEdges == 4

Undirected(E) == E \cup {<<e[2], e[1]>> : e \in E}

InlineDags(k) ==
    {E \in SUBSET {e \in (1..k) \X (1..k) : e[1] < e[2]} :
        /\ Cardinality(E) <= MaxInlineEdges
        /\ Reach(Undirected(E), {1}) = 1..k}

InlineOps == {"elementwise_add", "reduce_sum", "fill_constant"}

InitInline ==
    /\ \E k \in 1..NumInlineNodes :
          /\ nodes_set = 1..k
          /\ edges \in InlineDags(k)
    /\ op \in [nodes_set -> InlineOps]
    /\ \A n \in nodes_set : op[n] = "fill_constant" => GetProducers(n) = <<>>
    /\ output_nodes \in {Sinks \cup S : S \in {T \in SUBSET (nodes_set \ Sinks) : Cardinality(T) <= 1}}
    /\ pc = "inline"
    /\ virtual_consumers = EmptyMap
    /\ g_node = NULL
    /\ rest = {}
    /\ tmp_node_set = <<>>
    /\ nodes_in_order = <<>>
    /\ call = NoCall
    /\ nodes_inline = {}
    /\ master = EmptyMap
    /\ shape_dict_ = EmptyMap

NextInline == CallCanbeInline

SpecInline == InitInline /\ [][NextInline]_vars

----------------------------------------------------------------------------
\* Properties of the ordering.

Pos(node) == CHOOSE i \in 1..Len(nodes_in_order) : nodes_in_order[i] = node

InGroupEdges == {e \in edges : e[1] \in nodes_set /\ e[2] \in nodes_set}

\* The real edges of the group and the virtual ones, as <<producer, consumer>>.
OrderingEdges ==
    InGroupEdges \cup {<<n, virtual_consumers[n]>> : n \in DOMAIN virtual_consumers}

Descendants(node) == Reach(InGroupEdges, {node}) \ {node}

Ancestors(node) == {n \in nodes_set : node \in Descendants(n)}

Reductions == {n \in nodes_set : IsReduction(n)}

\* BuildVirtualConsumer has returned and TopologicalOrder is about to start.
Built == pc = "order" /\ tmp_node_set = <<>> /\ nodes_in_order = <<>>

\* C1 as claimed: in the returned sequence the producer of every real or
\* virtual edge of the group stands strictly before its consumer.
ProducersFirst ==
    pc = "ordered" => \A e \in OrderingEdges : Pos(e[1]) < Pos(e[2])

\* C1: in the sequence TopologicalOrder returns, the consumer of every real
\* or virtual edge of the group stands strictly before its producer.
ConsumersFirst ==
    pc = "ordered" => \A e \in OrderingEdges : Pos(e[2]) < Pos(e[1])

\* TopologicalOrder has returned for a group with a real edge and with a
\* virtual edge that is no real edge.
ConsumersFirstWitness ==
    /\ pc = "ordered"
    /\ InGroupEdges # {}
    /\ \E n \in DOMAIN virtual_consumers : <<n, virtual_consumers[n]>> \notin edges

\* C2: the sequence TopologicalOrder returns holds every node of the group
\* exactly once and no other node.
EveryNodeOnce ==
    pc = "ordered" =>
        /\ Range(nodes_in_order) = nodes_set
        /\ Len(nodes_in_order) = Cardinality(nodes_set)

\* TopologicalOrder has returned for a group of several nodes cut from a
\* graph with a consumer outside the group.
EveryNodeOnceWitness ==
    /\ pc = "ordered"
    /\ Cardinality(nodes_set) >= 2
    /\ \E e \in edges : e[1] \in nodes_set /\ e[2] \notin nodes_set

\* C3: BuildVirtualConsumer returns the empty map when the group's pattern
\* kind is not kReduction.
EmptyMapUnlessReduction ==
    (Built /\ op_pattern_kind # "kReduction") => virtual_consumers = EmptyMap

\* BuildVirtualConsumer has returned for a group that is not kReduction but
\* has a Reduction output and an output node that qualifies as anchor.
EmptyMapUnlessReductionWitness ==
    /\ Built
    /\ op_pattern_kind # "kReduction"
    /\ AnchorCandidates # {}
    /\ \E t \in output_nodes : IsReduction(t)

\* A non-reduction output with a Reduction node among the nodes it is
\* computed from in the group and without a consumer in the group.
QualifiesAsAnchor(t) ==
    /\ t \in output_nodes
    /\ ~IsReduction(t)
    /\ Ancestors(t) \cap Reductions # {}
    /\ \A e \in InGroupEdges : e[1] # t

\* C4: in a kReduction group an anchor is found iff an output qualifies, the
\* anchor qualifies, and a Reduction output has a virtual consumer iff an
\* anchor was found, and then it is the anchor.
ReductionOutputsGetAnchor ==
    (Built /\ op_pattern_kind = "kReduction") =>
        /\ g_node # NULL <=> \E t \in output_nodes : QualifiesAsAnchor(t)
        /\ g_node # NULL => QualifiesAsAnchor(g_node)
        /\ \A t \in output_nodes : IsReduction(t) =>
              /\ t \in DOMAIN virtual_consumers <=> g_node # NULL
              /\ t \in DOMAIN virtual_consumers => virtual_consumers[t] = g_node

\* A kReduction group with an anchor and a Reduction output that is not a
\* producer of the anchor.
ReductionOutputsGetAnchorWitness ==
    /\ Built
    /\ op_pattern_kind = "kReduction"
    /\ g_node # NULL
    /\ \E t \in output_nodes : IsReduction(t) /\ <<t, g_node>> \notin edges

\* C5: in a kReduction group a non-reduction output from which a Reduction
\* node is reachable in the group, through consumers or through producers,
\* gets no virtual consumer.
NoVirtualConsumerNearReducer ==
    (Built /\ op_pattern_kind = "kReduction") =>
        \A t \in output_nodes :
            (~IsReduction(t) /\ (Descendants(t) \cup Ancestors(t)) \cap Reductions # {})
                => t \notin DOMAIN virtual_consumers

\* A kReduction group with an anchor and another non-reduction output that
\* has a Reduction node among its producers' producers or its producers.
NoVirtualConsumerNearReducerWitness ==
    /\ Built
    /\ op_pattern_kind = "kReduction"
    /\ g_node # NULL
    /\ \E t \in output_nodes \ {g_node} :
          ~IsReduction(t) /\ Ancestors(t) \cap Reductions # {}

\* The groups of scenario D: exactly two outputs, r a Reduction and e not,
\* with no real path between them, in a kReduction group.
ScenarioD(r, e) ==
    /\ op_pattern_kind = "kReduction"
    /\ output_nodes = {r, e}
    /\ r # e
    /\ IsReduction(r)
    /\ ~IsReduction(e)
    /\ r \notin Descendants(e)
    /\ e \notin Descendants(r)

HasVirtualEdge(from, to) ==
    from \in DOMAIN virtual_consumers /\ virtual_consumers[from] = to

SharesAncestorOnlyWith(e, r) ==
    /\ (Descendants(e) \cup Ancestors(e)) \cap Reductions = {}
    /\ \E a \in Ancestors(e) : r \in Descendants(a)
    /\ \A a \in Ancestors(e) : Descendants(a) \cap Reductions \subseteq {r}

----------------------------------------------------------------------------
\* Properties of CanbeInline, on the call it has returned from.

Called == pc = "inlined"

\* C7: CanbeInline returns false for a node of the group's output nodes.
OutputNeverInlined ==
    (Called /\ call.node \in output_nodes) => (~call.fatal /\ call.ret = FALSE)

\* CanbeInline was called on an output node with a constant-producing
\* operator.
OutputNeverInlinedWitness ==
    /\ Called
    /\ call.node \in output_nodes
    /\ IsConstOp(call.node)

\* C8 as claimed: CanbeInline returns true for every node with a
\* constant-producing operator, group output or not.
ConstAlwaysInlined ==
    (Called /\ op[call.node] \in {"const_scalar", "fill_constant", "arange"})
        => (~call.fatal /\ call.ret = TRUE)

\* C8: CanbeInline returns true for every node with a constant-producing
\* operator that is no group output, whatever its consumers and the shapes.
ConstInlinedUnlessOutput ==
    (/\ Called
     /\ op[call.node] \in {"const_scalar", "fill_constant", "arange"}
     /\ call.node \notin output_nodes)
        => (~call.fatal /\ call.ret = TRUE)

\* CanbeInline was called on a constant-producing node that is no output
\* and has a Reduction consumer among several consumers.
ConstInlinedUnlessOutputWitness ==
    /\ Called
    /\ op[call.node] = "fill_constant"
    /\ call.node \notin output_nodes
    /\ Len(call.consumers) >= 2
    /\ \E i \in 1..Len(call.consumers) : IsReduction(call.consumers[i])

\* C9: for a node that is neither a group output nor constant-producing,
\* CanbeInline returns false when one of the consumers is a Reduction node.
ReductionConsumerBlocksInline ==
    (/\ Called
     /\ call.node \notin output_nodes
     /\ ~IsConstOp(call.node)
     /\ \E i \in 1..Len(call.consumers) : IsReduction(call.consumers[i]))
        => (~call.fatal /\ call.ret = FALSE)

\* CanbeInline was called on such a node whose one consumer is a Reduction.
ReductionConsumerBlocksInlineWitness ==
    /\ Called
    /\ call.node \notin output_nodes
    /\ ~IsConstOp(call.node)
    /\ ~IsReduction(call.node)
    /\ Len(call.consumers) = 1
    /\ IsReduction(call.consumers[1])

\* The call was made with a global reducer and on a node that rules 1-5 do
\* not decide.
AtShapeRule ==
    /\ Called
    /\ call.reducer # NULL
    /\ call.node \notin output_nodes
    /\ ~IsConstOp(call.node)
    /\ ~IsReduction(call.node)
    /\ \A i \in 1..Len(call.consumers) : ~IsReduction(call.consumers[i])
    /\ Len(call.consumers) # 1

\* The node's output element count differs from the reducer's input element
\* count (the element count of the reducer's first producer).
CountsDiffer ==
    /\ GetProducers(call.reducer) # <<>>
    /\ call.shape_dict[call.node] # call.shape_dict[Head(GetProducers(call.reducer))]

----------------------------------------------------------------------------
\* GetMasterToComputeAt.  Only the equality of two shapes is used, so a
\* shape stays the number shape_dict holds for it.

\* node->inlinks_in_order()[0]->source()->id(): the output of the first
\* producer, or for a node without a producer node an input tensor of the
\* graph, named by the negated id of the node.
InputId(node) ==
    IF GetProducers(node) # <<>> THEN Head(GetProducers(node)) ELSE 0 - node

DoneScheduleWholeOrder(node, order) == {tmp \in Range(order) : IsReduction(tmp)}

\* for (auto tmp : nodes_in_order): the Reduction nodes met before node.
RECURSIVE DoneSchedule(_, _)
DoneSchedule(node, order) ==
    IF order = <<>> \/ Head(order) = node THEN {}
    ELSE (IF IsReduction(Head(order)) THEN {Head(order)} ELSE {})
             \cup DoneSchedule(node, Tail(order))

\* The first while loop: erase from done_schedule every Reduction node met
\* as a consumer in the set, walking on from each consumer not yet visited.
RECURSIVE RemoveConsumerReducers(_, _, _, _)
RemoveConsumerReducers(candidates, visited, done_schedule, node_set) ==
    IF candidates = <<>> THEN done_schedule
    ELSE LET consumers == GetConsumersInSet(Head(candidates), node_set)
             fresh == SelectSeq(consumers, LAMBDA c : c \notin visited)
         IN  RemoveConsumerReducers(Tail(candidates) \o fresh,
                                    visited \cup Range(consumers),
                                    done_schedule \ {c \in Range(consumers) : IsReduction(c)},
                                    node_set)

\* for (auto consumer : consumers) of the second while loop, on the record
\* of its locals candidates, visited and masters.
RECURSIVE VisitConsumersStoppingAtInlined(_, _, _)
VisitConsumersStoppingAtInlined(consumers, inlines, locals) ==
    IF consumers = <<>> THEN locals
    ELSE LET consumer == Head(consumers)
         IN  VisitConsumersStoppingAtInlined(Tail(consumers), inlines,
                 IF consumer \in locals.visited THEN locals
                 ELSE [locals EXCEPT !.masters = @ \cup {consumer}])

RECURSIVE VisitConsumers(_, _, _)
VisitConsumers(consumers, inlines, locals) ==
    IF consumers = <<>> THEN locals
    ELSE LET consumer == Head(consumers)
         IN  VisitConsumers(Tail(consumers), inlines,
                 IF consumer \in locals.visited THEN locals
                 ELSE IF consumer \in inlines
                 THEN [locals EXCEPT !.candidates = Append(@, consumer),
                                     !.visited = @ \cup {consumer}]
                 ELSE [locals EXCEPT !.masters = @ \cup {consumer}])

\* The second while loop: the masters collected when candidates is empty.
RECURSIVE CollectMasters(_, _, _, _)
CollectMasters(locals, inlines, node_set, virtuals) ==
    IF locals.candidates = <<>> THEN locals.masters
    ELSE LET consumers == FindConsumers(Head(locals.candidates), node_set, virtuals)
         IN  CollectMasters(
                 VisitConsumers(consumers, inlines,
                                [locals EXCEPT !.candidates = Tail(@)]),
                 inlines, node_set, virtuals)

\* The first index of node in order, 0 when it is not there.
IndexOf(node, order) ==
    IF node \in Range(order)
    THEN CHOOSE i \in 1..Len(order) :
            order[i] = node /\ \A j \in 1..(i - 1) : order[j] # node
    ELSE 0

ScanForward(node, order, masters) ==
    LET before == {idy \in 1..(IndexOf(node, order) - 1) : order[idy] \in masters}
    IN  IF before = {} THEN NULL
        ELSE order[CHOOSE idy \in before : \A other \in before : idy <= other]

\* The last loop: from the position of node back to the front of order.
ScanBackward(node, order, masters) ==
    LET before == {idy \in 1..(IndexOf(node, order) - 1) : order[idy] \in masters}
    IN  IF before = {} THEN NULL
        ELSE order[CHOOSE idy \in before : \A other \in before : idy >= other]

\* The nodes a call may return.  done_schedule is an unordered set of
\* pointers: the first node of its iteration with the shape of node is any
\* node with that shape, and *done_schedule.begin() is any of its nodes.
GetMasterToComputeAt(node, order, inlines, node_set, virtuals, shape_dict) ==
    LET done_schedule ==
            IF IsReduction(node)
            THEN RemoveConsumerReducers(<<node>>, {}, DoneSchedule(node, order), node_set)
            ELSE {}
        same == {rnode \in done_schedule :
                    shape_dict[InputId(rnode)] = shape_dict[InputId(node)]}
        masters == CollectMasters([candidates |-> <<node>>, visited |-> {}, masters |-> {}],
                                  inlines, node_set, virtuals)
    IN  IF done_schedule # {}
        THEN (IF same # {} THEN same ELSE done_schedule)
        ELSE {ScanBackward(node, order, masters)}

\* The entries of shape_dict a call for node may look up.
MasterShapeKeys(node, order) ==
    IF IsReduction(node) /\ DoneSchedule(node, order) # {}
    THEN {InputId(n) : n \in {node} \cup DoneSchedule(node, order)}
    ELSE {}

\* A call of GetMasterToComputeAt for a node of the group.
CallGetMasterToComputeAt ==
    /\ pc = "master"
    /\ \E node \in nodes_set :
          \E shape_dict \in [MasterShapeKeys(node, nodes_in_order) -> Numels] :
             \E ret \in GetMasterToComputeAt(node, nodes_in_order, nodes_inline,
                                             nodes_set, virtual_consumers, shape_dict) :
                call' = [node |-> node, shape_dict |-> shape_dict, ret |-> ret]
    /\ pc' = "mastered"
    /\ UNCHANGED <<group, virtual_consumers, g_node, rest, tmp_node_set, nodes_in_order, schedule>>

\* GetMasterToComputeAt on its own: the group is the whole graph, the order
\* is a sequence of its nodes (here the ids ascending, over every numbering
\* of the graph), the inlined nodes are nodes CanbeInline may inline and
\* there is at most one virtual consumer, which closes no cycle.
MasterOps == {"elementwise_add", "reduce_sum"}

VirtualMaps ==
    {EmptyMap} \cup {[n \in {e[1]} |-> e[2]] : e \in {d \in NodeIds \X NodeIds : d[1] # d[2]}}

InitMaster ==
    /\ edges \in Dags
    /\ nodes_set = NodeIds
    /\ op \in [NodeIds -> MasterOps]
    /\ output_nodes = Sinks
    /\ nodes_in_order = SortById(NodeIds)
    /\ nodes_inline \in SUBSET {n \in nodes_set \ output_nodes : ~IsReduction(n)}
    /\ virtual_consumers \in VirtualMaps
    /\ Acyclic(edges \cup {<<n, virtual_consumers[n]>> : n \in DOMAIN virtual_consumers})
    /\ pc = "master"
    /\ g_node = NULL
    /\ rest = {}
    /\ tmp_node_set = <<>>
    /\ call = NoCall
    /\ master = EmptyMap
    /\ shape_dict_ = EmptyMap

NextMaster == CallGetMasterToComputeAt

SpecMaster == InitMaster /\ [][NextMaster]_vars

----------------------------------------------------------------------------
\* The lowering of a group: after TopologicalOrder has returned, every node
\* of nodes_in_order is taken in turn; it is inlined when CanbeInline says
\* so and gets the master GetMasterToComputeAt returns otherwise.

\* The position in nodes_in_order of the node to take next.
ScheduleIndex == Cardinality(nodes_inline) + Cardinality(DOMAIN master) + 1

\* shape_dict_ with an entry for every key, the entries it has unchanged.
ShapeDictWith(keys) ==
    {shape_dict \in [DOMAIN shape_dict_ \cup keys -> Numels] :
        \A k \in DOMAIN shape_dict_ : shape_dict[k] = shape_dict_[k]}

ScheduleNode ==
    /\ pc = "ordered"
    /\ ScheduleIndex <= Len(nodes_in_order)
    /\ LET node == nodes_in_order[ScheduleIndex]
           consumers == GetConsumersInSet(node, nodes_set)
           reducer == FindGlobalReducer(nodes_in_order)
           keys == ShapeKeys(node, consumers, reducer, Laster)
                       \cup MasterShapeKeys(node, nodes_in_order)
       IN  \E shape_dict \in ShapeDictWith(keys) :
             LET result == CanbeInline(node, consumers, reducer, Laster, shape_dict)
             IN  /\ shape_dict_' = shape_dict
                 /\ IF result.fatal
                    THEN /\ pc' = "fatal"
                         /\ UNCHANGED <<nodes_inline, master>>
                    ELSE IF result.ret
                    THEN /\ nodes_inline' = nodes_inline \cup {node}
                         /\ UNCHANGED <<pc, master>>
                    ELSE /\ \E ret \in GetMasterToComputeAt(node, nodes_in_order, nodes_inline,
                                                            nodes_set, virtual_consumers, shape_dict) :
                               master' = [n \in DOMAIN master \cup {node} |->
                                             IF n = node THEN ret ELSE master[n]]
                         /\ UNCHANGED <<pc, nodes_inline>>
    /\ UNCHANGED <<group, virtual_consumers, g_node, rest, tmp_node_set, nodes_in_order, call>>

\* Every node of nodes_in_order has been taken.
ScheduleReturn ==
    /\ pc = "ordered"
    /\ ScheduleIndex > Len(nodes_in_order)
    /\ pc' = "scheduled"
    /\ UNCHANGED <<group, virtual_consumers, g_node, rest, tmp_node_set, nodes_in_order, call, schedule>>

NextSchedule ==
    \/ BuildVirtualConsumer
    \/ TopologicalOrderPass
    \/ TopologicalOrderVisit
    \/ TopologicalOrderReturn
    \/ ScheduleNode
    \/ ScheduleReturn

SpecSchedule == Init /\ [][NextSchedule]_vars

----------------------------------------------------------------------------
\* Properties of GetMasterToComputeAt.

MasterCalled == pc = "mastered"

\* The nodes reached from node over real and virtual consumer edges of the
\* group whose every node after node is inlined.
ThroughInlined(node) == Reach({e \in OrderingEdges : e[2] \in nodes_inline}, {node})

\* The first consumer that is not inlined on each such path.
FirstNotInlined(node) ==
    {e[2] : e \in {d \in OrderingEdges : d[1] \in ThroughInlined(node)
                                          /\ d[2] \notin nodes_inline}}

\* The Reduction nodes before node in the order that are not reached from
\* node over consumer edges of the group.
HorizontalReducers(node) ==
    {r \in Reductions : Pos(r) < Pos(node) /\ r \notin Descendants(node)}

\* C11: for a node that is no Reduction, or a Reduction without a horizontal
\* Reduction candidate, the call returns the first not inlined consumer of a
\* path that stands nearest before the node in nodes_in_order, and null when
\* none stands before it.
NearestCandidateBefore ==
    (MasterCalled /\ (~IsReduction(call.node) \/ HorizontalReducers(call.node) = {})) =>
        LET before == {c \in FirstNotInlined(call.node) : Pos(c) < Pos(call.node)}
        IN  IF before = {} THEN call.ret = NULL
            ELSE /\ call.ret \in before
                 /\ \A c \in before : Pos(c) <= Pos(call.ret)

\* A call that returns a node met behind an inlined consumer.
NearestCandidateBeforeWitness ==
    /\ MasterCalled
    /\ ~IsReduction(call.node)
    /\ call.ret # NULL
    /\ <<call.node, call.ret>> \notin OrderingEdges

----------------------------------------------------------------------------
\* Properties of the masters the lowering of a group finds.

Scheduled == pc = "scheduled"

HasOrderingConsumer(node) == \E e \in OrderingEdges : e[1] = node

\* C13 as claimed: the one node GetMasterToComputeAt returns null for is the
\* terminal output node, the front of nodes_in_order.
NullOnlyForTerminalOutput ==
    Scheduled => \A n \in DOMAIN master : master[n] = NULL <=> n = nodes_in_order[1]

\* C13: GetMasterToComputeAt returns null for exactly the nodes that have
\* neither a real nor a virtual consumer in the group, a Reduction node with
\* a Reduction node before it in nodes_in_order excepted.
NullOnlyWithoutConsumer ==
    Scheduled =>
        \A n \in DOMAIN master :
            master[n] = NULL <=>
                /\ ~HasOrderingConsumer(n)
                /\ IsReduction(n) => HorizontalReducers(n) = {}

\* A lowering that found no master for a node behind the front of
\* nodes_in_order and a master for another node.
NullOnlyWithoutConsumerWitness ==
    /\ Scheduled
    /\ \E n \in DOMAIN master : master[n] = NULL /\ n # nodes_in_order[1]
    /\ \E n \in DOMAIN master : master[n] # NULL

\* Following master from node, no node is met twice and the node without a
\* master that ends the chain is a group output or has no consumer in the
\* group.
RECURSIVE MasterChainEnds(_, _)
MasterChainEnds(node, seen) ==
    IF node \in seen \/ node \notin DOMAIN master THEN FALSE
    ELSE IF master[node] = NULL THEN node \in output_nodes \cup Sinks
    ELSE MasterChainEnds(master[node], seen \cup {node})

\* C14: every node that is neither a group output nor inlined has a master,
\* which is another node of the group and is not inlined, and the chain of
\* masters from any node ends without repeating a node at a group output or
\* a node without consumer in the group.
OneMasterAndChainEnds ==
    Scheduled =>
        /\ \A n \in nodes_set \ (output_nodes \cup nodes_inline) :
              /\ n \in DOMAIN master
              /\ master[n] \in nodes_set \ ({n} \cup nodes_inline)
        /\ \A n \in DOMAIN master : MasterChainEnds(n, {})

\* A lowering that found, for a node that is no group output, a master
\* behind an inlined consumer of the node.
OneMasterAndChainEndsWitness ==
    /\ Scheduled
    /\ \E n \in DOMAIN master \ output_nodes :
          /\ master[n] # NULL
          /\ \E i \in nodes_inline :
                <<n, i>> \in OrderingEdges /\ <<i, master[n]>> \in OrderingEdges

----------------------------------------------------------------------------
\* The reduction loop planners.  The loop nest of a block is kept as the
\* sequence of the extents of its loops, outermost first; axes and loop
\* positions count from 0 as in the code.

\* vec[idx] of a std::vector
At(vec, idx) == vec[idx + 1]

Back(vec) == vec[Len(vec)]

RECURSIVE Product(_)
Product(vec) == IF vec = <<>> THEN 1 ELSE Head(vec) * Product(Tail(vec))

Contains(vec, x) == \E i \in 1..Len(vec) : vec[i] = x

CeilDiv(a, b) == (a + b - 1) \div b

\* A nest whose schedule primitive was given a loop it does not have.
BadNest == [loops |-> <<>>, ok |-> FALSE]

Nest(extents) == [loops |-> extents, ok |-> TRUE]

HasLoop(nest, pos) == nest.ok /\ pos >= 0 /\ pos < Len(nest.loops)

\* ir_sch.Split(loop, {-1, factor}): the loop at pos becomes an outer loop
\* of ceil(extent / factor) and an inner loop of factor.
Split(nest, pos, factor) ==
    IF ~HasLoop(nest, pos) \/ factor < 1 THEN BadNest
    ELSE Nest(SubSeq(nest.loops, 1, pos)
                  \o <<CeilDiv(At(nest.loops, pos), factor), factor>>
                  \o SubSeq(nest.loops, pos + 2, Len(nest.loops)))

\* ir_sch.Fuse(block, {pos, pos + 1})
Fuse(nest, pos) ==
    IF ~HasLoop(nest, pos) \/ ~HasLoop(nest, pos + 1) THEN BadNest
    ELSE Nest(SubSeq(nest.loops, 1, pos)
                  \o <<At(nest.loops, pos) * At(nest.loops, pos + 1)>>
                  \o SubSeq(nest.loops, pos + 3, Len(nest.loops)))

RECURSIVE FuseTimes(_, _, _)
FuseTimes(nest, pos, times) ==
    IF times <= 0 THEN nest ELSE FuseTimes(Fuse(nest, pos), pos, times - 1)

\* ir_sch.Reorder(block, order) with every loop of the nest named in order.
Reorder(nest, order) ==
    IF ~nest.ok \/ \E i \in 1..Len(order) : ~HasLoop(nest, order[i]) THEN BadNest
    ELSE Nest([i \in 1..Len(order) |-> At(nest.loops, order[i])])

\* The greatest divisor of extent among idx, idx - 1, ..., 1.
RECURSIVE DivisorFrom(_, _)
DivisorFrom(extent, idx) ==
    IF idx <= 1 \/ extent % idx = 0 THEN idx ELSE DivisorFrom(extent, idx - 1)

ReduceAxesFirst(n_out_dims, axes) ==
    axes \o SelectSeq([i \in 1..n_out_dims |-> i - 1], LAMBDA idx : ~Contains(axes, idx))

\* The order LoopOrderAssignReduce hands to Reorder: the loops that are no
\* reduce axis, ascending, then the reduce axes.
ReduceAxesLast(n_out_dims, axes) ==
    SelectSeq([i \in 1..n_out_dims |-> i - 1], LAMBDA idx : ~Contains(axes, idx)) \o axes

LoopOrderAssignReduce(nest, axes, max_num_threads, just_reorder) ==
    LET n_out_dims == Len(nest.loops)
        reordered == Reorder(nest, ReduceAxesLast(n_out_dims, axes))
        last_dimension_num == n_out_dims - Back(axes) - 1
        index == n_out_dims - last_dimension_num - Len(axes)
        fused == FuseTimes(reordered, index, last_dimension_num - 1)
        psize == At(fused.loops, index)
        split == IF ~HasLoop(fused, index) THEN BadNest
                 ELSE IF psize > max_num_threads
                 THEN Split(fused, index, DivisorFrom(psize, max_num_threads))
                 ELSE fused
    IN  IF just_reorder THEN reordered
        ELSE FuseTimes(split, 0, index - 1)

\* The result of a planner: whether a check of the planner failed, the lane
\* and the axis index its walk over the axes stopped with, the factor of the
\* divisor split (0 when no loop was split so), the order handed to Reorder,
\* the loop nest it leaves and whether a schedule primitive was given a loop
\* the nest does not have.
Planned(fatal, lane, index, factor, order, nest) ==
    [fatal |-> fatal, lane |-> lane, index |-> index, factor |-> factor,
     order |-> order, loops |-> nest.loops, bad_loop |-> ~nest.ok]

PlanFatal(lane, index) == Planned(TRUE, lane, index, 0, <<>>, Nest(<<>>))

\* The for loop of LoopAssignReduceWithoutLast over index: the lane, index
\* and pos it ends with.
RECURSIVE WithoutLastWalk(_, _, _, _, _)
WithoutLastWalk(inshape, axes, max_num_threads, index, lane) ==
    IF index + 1 < Len(axes) /\ At(axes, index) # At(axes, index + 1) - 1
    THEN [lane |-> lane, index |-> index, pos |-> At(axes, index + 1)]
    ELSE LET next == lane * At(inshape, At(axes, index))
         IN  IF next > max_num_threads \div 2
             THEN [lane |-> next, index |-> index, pos |-> At(axes, index)]
             ELSE IF index = 0
             THEN [lane |-> next, index |-> 0 - 1, pos |-> At(axes, 0)]
             ELSE WithoutLastWalk(inshape, axes, max_num_threads, index - 1, next)

SplitSearchAboveThreads(prefix, idx, bound) ==
    LET divisors == {d \in (bound + 1)..prefix : prefix % d = 0}
    IN  IF divisors = {} THEN 0 - 1
        ELSE CHOOSE d \in divisors : \A other \in divisors : other <= d

SplitSearchUnchecked(prefix, idx, bound) ==
    LET divisors == {d \in (bound + 1)..idx : prefix % d = 0}
    IN  IF divisors = {} THEN 0
        ELSE CHOOSE d \in divisors : \A other \in divisors : other <= d

\* for (idx = max_num_threads / tail; idx > bound; --idx) with the check
\* CHECK_GT(idx - 1, bound) after a factor that does not divide: the factor
\* found, 0 when the loop ends without one, -1 when the check fails.
RECURSIVE SplitSearch(_, _, _)
SplitSearch(prefix, idx, bound) ==
    IF idx <= bound THEN 0
    ELSE IF prefix % idx = 0 THEN idx
    ELSE IF ~(idx - 1 > bound) THEN 0 - 1
    ELSE SplitSearch(prefix, idx - 1, bound)

\* // insert 1
RECURSIVE InsertOne(_, _, _)
InsertOne(nest, pos, times) ==
    IF times <= 0 THEN nest
    ELSE IF ~HasLoop(nest, pos) THEN BadNest
    ELSE InsertOne(Split(nest, pos, At(nest.loops, pos)), pos, times - 1)

\* // return insert 1
RECURSIVE ReturnInsertOne(_, _, _)
ReturnInsertOne(nest, start_index, times) ==
    IF times <= 0 THEN nest
    ELSE IF ~HasLoop(nest, start_index) THEN BadNest
    ELSE IF At(nest.loops, start_index) = 1
    THEN ReturnInsertOne(Fuse(nest, start_index - 1), start_index, times - 1)
    ELSE ReturnInsertOne(nest, start_index + 1, times - 1)

LoopAssignReduceWithoutLast(inshape, axes, max_num_threads) ==
    LET tail_lane == Product(SubSeq(inshape, Back(axes) + 2, Len(inshape)))
        walk == WithoutLastWalk(inshape, axes, max_num_threads, Len(axes) - 1, tail_lane)
        prefix == At(inshape, At(axes, walk.index))
        tail == walk.lane \div prefix
        factor == IF walk.lane > max_num_threads \div 2
                  THEN SplitSearch(prefix, max_num_threads \div tail,
                                   (max_num_threads \div 2) \div tail)
                  ELSE 0
        split == IF factor > 0 THEN Split(Nest(inshape), At(axes, walk.index), factor)
                 ELSE Nest(inshape)
        inserted == InsertOne(split, walk.pos, Len(axes) - 1 - walk.index)
        ordered == LoopOrderAssignReduce(inserted, axes, max_num_threads, FALSE)
    IN  IF axes = <<>> THEN PlanFatal(1, 0 - 1)
        ELSE IF ~(tail_lane <= max_num_threads \div 2) THEN PlanFatal(tail_lane, Len(axes) - 1)
        ELSE IF factor < 0 THEN PlanFatal(walk.lane, walk.index)
        ELSE Planned(FALSE, walk.lane, walk.index, factor,
                     ReduceAxesLast(Len(inserted.loops), axes),
                     ReturnInsertOne(ordered, Len(ordered.loops) - Len(axes), Len(axes)))

RECURSIVE WithLastWalkWithoutFatal(_, _, _, _, _)
WithLastWalkWithoutFatal(inshape, axes, max_num_threads, index, lane) ==
    IF index < 0 THEN [fatal |-> FALSE, lane |-> lane, index |-> index]
    ELSE IF index + 1 < Len(axes) /\ At(axes, index) # At(axes, index + 1) - 1
    THEN [fatal |-> FALSE, lane |-> lane, index |-> index]
    ELSE LET next == lane * At(inshape, At(axes, index))
         IN  IF next >= max_num_threads \div 2
             THEN [fatal |-> FALSE, lane |-> next,
                   index |-> IF next <= max_num_threads THEN index - 1 ELSE index]
             ELSE WithLastWalkWithoutFatal(inshape, axes, max_num_threads, index - 1, next)

\* The for loop of LoopAssignReduceWithLast over index: the lane and index
\* it ends with, or the LOG(FATAL) of line 476.
RECURSIVE WithLastWalk(_, _, _, _, _)
WithLastWalk(inshape, axes, max_num_threads, index, lane) ==
    IF index < 0 THEN [fatal |-> FALSE, lane |-> lane, index |-> index]
    ELSE IF index + 1 < Len(axes) /\ At(axes, index) # At(axes, index + 1) - 1
    THEN [fatal |-> FALSE, lane |-> lane, index |-> index]
    ELSE LET next == lane * At(inshape, At(axes, index))
         IN  IF index = 0 /\ next <= max_num_threads
             THEN [fatal |-> TRUE, lane |-> next, index |-> index]
             ELSE IF next >= max_num_threads \div 2
             THEN [fatal |-> FALSE, lane |-> next,
                   index |-> IF next <= max_num_threads THEN index - 1 ELSE index]
             ELSE WithLastWalk(inshape, axes, max_num_threads, index - 1, next)

\* do { ... --idx; } while (idx >= max_num_threads / 2) with the check
\* CHECK_GE(idx, max_num_threads / 2) behind it: the factor found, -1 when
\* the check fails.
RECURSIVE LastAxisSplitSearch(_, _, _)
LastAxisSplitSearch(lane, idx, max_num_threads) ==
    IF lane % idx = 0 THEN idx
    ELSE IF idx - 1 >= max_num_threads \div 2
    THEN LastAxisSplitSearch(lane, idx - 1, max_num_threads)
    ELSE 0 - 1

\* for (idx = max_num_threads / tail; idx > bound; --idx) with the check
\* CHECK_GT(idx, bound) after a factor that does not divide: the factor
\* found, 0 when the loop ends without one, -1 when the check fails.
RECURSIVE EarlierAxisSplitSearch(_, _, _)
EarlierAxisSplitSearch(prefix, idx, bound) ==
    IF idx <= bound THEN 0
    ELSE IF prefix % idx = 0 THEN idx
    ELSE IF ~(idx > bound) THEN 0 - 1
    ELSE EarlierAxisSplitSearch(prefix, idx - 1, bound)

LoopAssignReduceWithLast(inshape, axes, max_num_threads) ==
    LET walk == WithLastWalk(inshape, axes, max_num_threads, Len(axes) - 1, 1)
        index == walk.index
        first_axes == SubSeq(axes, 1, index + 1)
        prefix == At(inshape, At(axes, index))
        tail == walk.lane \div prefix
        factor == IF index = Len(axes) - 1
                  THEN LastAxisSplitSearch(walk.lane, max_num_threads, max_num_threads)
                  ELSE EarlierAxisSplitSearch(prefix, max_num_threads \div tail,
                                              (max_num_threads \div 2) \div tail)
        split == IF factor > 0 THEN Split(Nest(inshape), At(axes, index), factor)
                 ELSE Nest(inshape)
        fused == FuseTimes(Nest(inshape), At(axes, index + 1), Len(axes) - (index + 1) - 1)
        reordered == LoopOrderAssignReduce(fused, first_axes, max_num_threads, TRUE)
    IN  IF walk.fatal THEN PlanFatal(walk.lane, index)
        ELSE IF walk.lane > max_num_threads
        THEN IF factor < 0 THEN PlanFatal(walk.lane, index)
             ELSE Planned(FALSE, walk.lane, index, factor,
                          ReduceAxesLast(Len(split.loops), first_axes),
                          LoopOrderAssignReduce(split, first_axes, max_num_threads, FALSE))
        ELSE Planned(FALSE, walk.lane, index, 0,
                     ReduceAxesLast(Len(fused.loops), first_axes),
                     FuseTimes(reordered, 0, (Len(inshape) - Len(axes)) - 1))

WithoutLastDimInReduce(shape, axes) ==
    IF axes = <<>> THEN FALSE
    ELSE IF Contains(axes, Len(shape) - 1) \/ Contains(axes, 0 - 1) THEN FALSE
    ELSE Product(SubSeq(shape, Back(axes) + 2, Len(shape))) > 1

\* Largest number of dimensions of a reduction input.
MaxRank == 5

\* The extents of the dimensions of a reduction input.
Extents == {1, 2, 3, 16}

\* target.max_num_threads()
Threads == {8, 1024}

InShapes == UNION {[1..rank -> Extents] : rank \in 1..MaxRank}

\* The "dim" attribute of a reduction: axes of the input, ascending.
AxesOf(shape) == {SortById(S) : S \in (SUBSET (0..(Len(shape) - 1))) \ {{}}}

\* The planners on their own: the block has one loop for every dimension of
\* the reduction input (LoopAssignReduce splits its loop by shape), and
\* LoopAssignReduce picks the planner with WithoutLastDimInReduce.
InitPlan ==
    /\ \E inshape \in InShapes, max_num_threads \in Threads :
          \E axes \in AxesOf(inshape) :
             call = [inshape |-> inshape, axes |-> axes, max_num_threads |-> max_num_threads]
    /\ pc = "plan"
    /\ edges = {}
    /\ op = <<>>
    /\ nodes_set = {}
    /\ output_nodes = {}
    /\ virtual_consumers = EmptyMap
    /\ g_node = NULL
    /\ rest = {}
    /\ tmp_node_set = <<>>
    /\ nodes_in_order = <<>>
    /\ nodes_inline = {}
    /\ master = EmptyMap
    /\ shape_dict_ = EmptyMap

PlanUnchanged ==
    UNCHANGED <<group, virtual_consumers, g_node, rest, tmp_node_set, nodes_in_order, schedule>>

CallLoopAssignReduceWithoutLast ==
    /\ pc = "plan"
    /\ WithoutLastDimInReduce(call.inshape, call.axes)
    /\ call' = [inshape |-> call.inshape, axes |-> call.axes,
                max_num_threads |-> call.max_num_threads,
                plan |-> LoopAssignReduceWithoutLast(call.inshape, call.axes,
                                                     call.max_num_threads)]
    /\ pc' = "without_last"
    /\ PlanUnchanged

CallLoopAssignReduceWithLast ==
    /\ pc = "plan"
    /\ ~WithoutLastDimInReduce(call.inshape, call.axes)
    /\ call' = [inshape |-> call.inshape, axes |-> call.axes,
                max_num_threads |-> call.max_num_threads,
                plan |-> LoopAssignReduceWithLast(call.inshape, call.axes,
                                                  call.max_num_threads)]
    /\ pc' = "with_last"
    /\ PlanUnchanged

NextPlan ==
    \/ CallLoopAssignReduceWithoutLast
    \/ CallLoopAssignReduceWithLast

SpecPlan == InitPlan /\ [][NextPlan]_vars

----------------------------------------------------------------------------
\* Properties of the reduction loop planners.

WithoutLastPlanned == pc = "without_last"

WithLastPlanned == pc = "with_last"

\* The extent of the reduce axis the walk of a planner stopped at.
StopExtent == At(call.inshape, At(call.axes, call.plan.index))

\* The lane left for the threads: the accumulated lane, with the extent of
\* the split axis replaced by the split factor.
PlannedLane ==
    IF call.plan.factor > 0
    THEN (call.plan.lane \div StopExtent) * call.plan.factor
    ELSE call.plan.lane

\* The product of the extents behind the last reduce axis.
TailLane == Product(SubSeq(call.inshape, Back(call.axes) + 2, Len(call.inshape)))

\* C15: when LoopAssignReduceWithoutLast completes, the lane it planned for
\* the threads is at most max_num_threads.
LaneWithinThreads ==
    (WithoutLastPlanned /\ ~call.plan.fatal) => PlannedLane <= call.max_num_threads

\* LoopAssignReduceWithoutLast has completed with an axis split and with a
\* lane of more than max_num_threads before the split.
LaneWithinThreadsWitness ==
    /\ WithoutLastPlanned
    /\ ~call.plan.fatal
    /\ call.plan.factor > 1
    /\ call.plan.lane > call.max_num_threads

\* The divisors of the extent of the stop axis in ((T/2)/tail, T/tail].
SplitRange ==
    LET tail == call.plan.lane \div StopExtent
    IN  {d \in (((call.max_num_threads \div 2) \div tail) + 1)..(call.max_num_threads \div tail) :
            StopExtent % d = 0}

\* C16: when the lane accumulated by LoopAssignReduceWithoutLast exceeds
\* max_num_threads / 2 at an axis, the axis is split by the largest divisor
\* of its extent in the range, and the planner fails when there is none.
LargestDivisorOrFatal ==
    (/\ WithoutLastPlanned
     /\ TailLane <= call.max_num_threads \div 2
     /\ call.plan.lane > call.max_num_threads \div 2) =>
        IF SplitRange = {} THEN call.plan.fatal
        ELSE /\ ~call.plan.fatal
             /\ call.plan.factor \in SplitRange
             /\ \A d \in SplitRange : d <= call.plan.factor

\* LoopAssignReduceWithoutLast has failed at an axis whose extent has no
\* divisor in the range.
LargestDivisorOrFatalWitness ==
    /\ WithoutLastPlanned
    /\ TailLane <= call.max_num_threads \div 2
    /\ call.plan.lane > call.max_num_threads \div 2
    /\ SplitRange = {}
    /\ call.plan.fatal

\* C17: when the lane accumulated by LoopAssignReduceWithLast exceeds
\* max_num_threads, the planner has split the boundary axis or has failed.
SplitOrFatal ==
    (WithLastPlanned /\ call.plan.lane > call.max_num_threads) =>
        call.plan.fatal \/ call.plan.factor > 0

\* The axis index at which the walk from the last reduce axis first has a
\* lane of max_num_threads / 2 or more.
ReachedAt ==
    LET reached == {j \in 0..(Len(call.axes) - 1) :
                       Product([i \in 1..(Len(call.axes) - j) |->
                                   At(call.inshape, At(call.axes, j + i - 1))])
                           >= call.max_num_threads \div 2}
    IN  CHOOSE j \in reached : \A other \in reached : other <= j

LaneFits ==
    /\ WithLastPlanned
    /\ call.plan.lane >= call.max_num_threads \div 2
    /\ call.plan.lane <= call.max_num_threads

\* C18 as claimed: a lane within [T/2, T] never ends in a fatal error.
LaneFitsNeverFatal ==
    LaneFits => ~call.plan.fatal /\ call.plan.factor = 0

\* C18: with a lane within [T/2, T] LoopAssignReduceWithLast splits no axis;
\* it completes when the lane is reached behind the first axis of the list
\* and fails when it is reached at the first axis.
LaneFitsFatalAtFirstAxis ==
    LaneFits =>
        /\ call.plan.factor = 0
        /\ call.plan.fatal <=> ReachedAt = 0
        /\ ~call.plan.fatal => ~call.plan.bad_loop

\* LoopAssignReduceWithLast has completed with a lane within [T/2, T]
\* accumulated over several axes.
LaneFitsFatalAtFirstAxisWitness ==
    /\ LaneFits
    /\ ~call.plan.fatal
    /\ Len(call.axes) - 1 - ReachedAt >= 1

ScenarioB ==
    /\ WithoutLastPlanned
    /\ call.inshape = <<16, 16, 16, 16, 16>>
    /\ call.axes = <<1, 3>>
    /\ call.max_num_threads = 1024

----------------------------------------------------------------------------
\* The calls of MergeLoops.  MergeLoops moves the body of a loop of src
\* under the loop of dst at the same depth; the loops around a block keep
\* their extents, so the loops of a block are the sequence of their extents
\* throughout.

INT_MAX == 2147483647

Min(a, b) == IF a <= b THEN a ELSE b

Max(a, b) == IF a >= b THEN a ELSE b

\* A call MergeLoops(root, src, dst, index) and whether one of its checks
\* CHECK_GT(src.size(), index), CHECK_GT(dst.size(), index) fails.
MergeLoops(src, dst, index) ==
    [src |-> src, dst |-> dst, index |-> index,
     fatal |-> index >= 0 /\ (~(Len(src) > index) \/ ~(Len(dst) > index))]

RECURSIVE EqualExtentFromOrZero(_, _, _)
EqualExtentFromOrZero(node_loops, master_loops, index) ==
    IF At(node_loops, index) = At(master_loops, index) THEN index
    ELSE IF index - 1 >= 0 THEN EqualExtentFromOrZero(node_loops, master_loops, index - 1)
    ELSE 0

\* do { if (extents differ) continue; ...; break; } while (--index >= 0):
\* the index the body is reached with, -1 when it is never reached.
RECURSIVE EqualExtentFrom(_, _, _)
EqualExtentFrom(node_loops, master_loops, index) ==
    IF At(node_loops, index) = At(master_loops, index) THEN index
    ELSE IF index - 1 >= 0 THEN EqualExtentFrom(node_loops, master_loops, index - 1)
    ELSE 0 - 1

\* The calls LoopComputeAt makes for a node that is no Reduction and not its
\* own master.
LoopComputeAt(node_loops, master_loops) ==
    LET index == EqualExtentFrom(node_loops, master_loops,
                                 Min(Len(node_loops), Len(master_loops)) - 1)
    IN  IF index >= 0 THEN <<MergeLoops(node_loops, master_loops, index)>> ELSE <<>>

\* while (src_loops[index + 1] and dst_loops[index + 1] have equal extents)
RECURSIVE EqualExtentPrefix(_, _, _)
EqualExtentPrefix(src_loops, dst_loops, index) ==
    IF At(src_loops, index + 1) # At(dst_loops, index + 1) THEN index
    ELSE IF Len(src_loops) = index + 2 \/ Len(dst_loops) = index + 2 THEN index + 1
    ELSE EqualExtentPrefix(src_loops, dst_loops, index + 1)

\* The for loop of MergeReduceLoop over the staged tensors of node: tensors
\* holds the loops of node, node_0, node_1 as far as they have a block.
RECURSIVE MergeStages(_, _)
MergeStages(tensors, min_index_loop) ==
    IF Len(tensors) < 2 THEN [merges |-> <<>>, min_index_loop |-> min_index_loop]
    ELSE LET dst_loops == tensors[1]
             src_loops == tensors[2]
             index == EqualExtentPrefix(src_loops, dst_loops, 0 - 1)
             later == MergeStages(Tail(tensors), Min(min_index_loop, index))
         IN  [merges |-> <<MergeLoops(src_loops, dst_loops, index)>> \o later.merges,
              min_index_loop |-> later.min_index_loop]

MergeDepthMax(index, min_index_loop) == Max(index, min_index_loop)

\* std::min(index, min_index_loop) of line 1185
MergeDepth(index, min_index_loop) == Min(index, min_index_loop)

\* The calls MergeReduceLoop makes for a Reduction node whose master is no
\* other Reduction node.
MergeReduceLoop(node_loops, stage_loops, master_loops, node_is_master) ==
    LET staged == MergeStages(<<node_loops>> \o stage_loops, INT_MAX)
        index == EqualExtentFrom(node_loops, master_loops,
                                 Min(Len(node_loops), Len(master_loops)) - 1)
    IN  IF node_is_master \/ index < 0 THEN staged.merges
        ELSE Append(staged.merges,
                    MergeLoops(node_loops, master_loops,
                               MergeDepth(index, staged.min_index_loop)))

\* The call MergeReduceToReduce makes when the reduction is staged by block
\* shuffle and neither the shapes nor the last extents of the _0 tensors of
\* node and master agree (line 1021); its other branches make none.
MergeReduceToReduce(n_loops, m_loops, merges_loops) ==
    IF merges_loops THEN <<MergeLoops(n_loops, m_loops, 0)>> ELSE <<>>

\* Largest number of loops around a block.
MaxLoops == 3

\* The extents of those loops.
LoopExtents == {1, 2}

\* ir_sch.GetLoops(block) returns at least one loop.
LoopLists == UNION {[1..n -> LoopExtents] : n \in 1..MaxLoops}

\* The loops of the staged tensors node_0 and node_1 that have a block.
StageLoopLists == {<<>>} \cup {<<a>> : a \in LoopLists} \cup (LoopLists \X LoopLists)

\* The loop merger on its own: the loops of the node, of its staged tensors
\* and of its master when LoopComputeAt is called.
InitMerge ==
    /\ \E node_loops \in LoopLists, master_loops \in LoopLists, stage_loops \in StageLoopLists :
          call = [node_loops |-> node_loops, master_loops |-> master_loops,
                  stage_loops |-> stage_loops]
    /\ pc = "merge"
    /\ edges = {}
    /\ op = <<>>
    /\ nodes_set = {}
    /\ output_nodes = {}
    /\ virtual_consumers = EmptyMap
    /\ g_node = NULL
    /\ rest = {}
    /\ tmp_node_set = <<>>
    /\ nodes_in_order = <<>>
    /\ nodes_inline = {}
    /\ master = EmptyMap
    /\ shape_dict_ = EmptyMap

Merged(site, merges) ==
    [node_loops |-> call.node_loops, master_loops |-> call.master_loops,
     stage_loops |-> call.stage_loops, site |-> site, merges |-> merges]

\* LoopComputeAt for a node that is no Reduction.
CallLoopComputeAt ==
    /\ pc = "merge"
    /\ call.stage_loops = <<>>
    /\ call' = Merged("LoopComputeAt", LoopComputeAt(call.node_loops, call.master_loops))
    /\ pc' = "merged"
    /\ PlanUnchanged

\* LoopComputeAt for a Reduction node that is its own master or has a master
\* that is no Reduction.
CallMergeReduceLoop ==
    /\ pc = "merge"
    /\ \E node_is_master \in BOOLEAN :
          /\ node_is_master => call.master_loops = call.node_loops
          /\ call' = Merged("MergeReduceLoop",
                            MergeReduceLoop(call.node_loops, call.stage_loops,
                                            call.master_loops, node_is_master))
    /\ pc' = "merged"
    /\ PlanUnchanged

\* LoopComputeAt for a Reduction node whose master is another Reduction:
\* stage_loops holds the loops of node_0 and of master_0.
CallMergeReduceToReduce ==
    /\ pc = "merge"
    /\ Len(call.stage_loops) = 2
    /\ \E merges_loops \in BOOLEAN :
          call' = Merged("MergeReduceToReduce",
                         MergeReduceToReduce(call.stage_loops[1], call.stage_loops[2],
                                             merges_loops))
    /\ pc' = "merged"
    /\ PlanUnchanged

NextMerge ==
    \/ CallLoopComputeAt
    \/ CallMergeReduceLoop
    \/ CallMergeReduceToReduce

SpecMerge == InitMerge /\ [][NextMerge]_vars

----------------------------------------------------------------------------
\* Properties of the loop merger.

\* C20: in every call of MergeLoops the index is below the number of loops
\* of src and of dst, and no check of MergeLoops fails.
MergeDepthInBounds ==
    pc = "merged" =>
        \A i \in 1..Len(call.merges) :
            /\ call.merges[i].index < Min(Len(call.merges[i].src), Len(call.merges[i].dst))
            /\ ~call.merges[i].fatal

\* MergeReduceLoop has merged two staged tensors and then the node into its
\* master, at a depth below the depth the extents of node and master agree to.
MergeDepthInBoundsWitness ==
    /\ pc = "merged"
    /\ call.site = "MergeReduceLoop"
    /\ Len(call.merges) = 3
    /\ call.merges[3].index >= 0
    /\ call.merges[3].index < EqualExtentFrom(call.node_loops, call.master_loops,
                                  Min(Len(call.node_loops), Len(call.master_loops)) - 1)

----------------------------------------------------------------------------
\* Termination of TopologicalOrder.

\* The ordering under the fairness the code gives it: it is one thread that
\* runs BuildVirtualConsumer and TopologicalOrder to the end without pause.
SpecOrder == Spec /\ WF_vars(Next)

\* A pass of the while loop is about to take its snapshot.
AtPassHead == pc = "order" /\ tmp_node_set = <<>> /\ rest # {}

\* The nodes the coming pass can erase at once: those without a real or
\* virtual consumer left in nodes_set.
SinksLeft ==
    {n \in rest :
        LET consumers == FindConsumers(n, rest, virtual_consumers)
        IN  \A i \in 1..Len(consumers) : consumers[i] \notin rest}

\* C26: the real edges of the group and the virtual edges of
\* BuildVirtualConsumer have no cycle, every pass of the while loop of
\* TopologicalOrder finds a node to erase, and TopologicalOrder returns.
OrderingTerminates ==
    /\ [](pc # "start" => Acyclic(OrderingEdges))
    /\ [](AtPassHead => SinksLeft # {})
    /\ <>(pc = "ordered")

\* TopologicalOrder has returned after ordering three nodes, one of them
\* ahead of its virtual consumer only.
OrderingTerminatesWitness ==
    /\ pc = "ordered"
    /\ Len(nodes_in_order) = NumNodes
    /\ \E n \in DOMAIN virtual_consumers :
          /\ <<n, virtual_consumers[n]>> \notin edges
          /\ Pos(virtual_consumers[n]) < Pos(n)

----------------------------------------------------------------------------
\* Properties of LoopComputeAt for a node that is no Reduction.

\* LoopComputeAt has returned for such a node.
ComputedAt == pc = "merged" /\ call.site = "LoopComputeAt"

\* The indices, up to the last loop of the shorter list, at which the loops
\* of node and master have the same extent.
EqualExtentIndices ==
    {i \in 0..(Min(Len(call.node_loops), Len(call.master_loops)) - 1) :
        At(call.node_loops, i) = At(call.master_loops, i)}

Deepest(S) == CHOOSE i \in S : \A j \in S : j <= i

MergedNodeAt(index) ==
    /\ Len(call.merges) = 1
    /\ call.merges[1].src = call.node_loops
    /\ call.merges[1].dst = call.master_loops
    /\ call.merges[1].index = index

\* C22 as claimed: LoopComputeAt always merges the node into its master, at
\* the deepest index of equal extents and at index 0 when there is none.
MergesAtDeepestOrZero ==
    ComputedAt =>
        MergedNodeAt(IF EqualExtentIndices = {} THEN 0 ELSE Deepest(EqualExtentIndices))

\* C22: LoopComputeAt merges the node into its master at the deepest index
\* of equal extents, and calls MergeLoops not at all when there is none.
MergesAtDeepestOrNot ==
    ComputedAt =>
        IF EqualExtentIndices = {} THEN call.merges = <<>>
        ELSE MergedNodeAt(Deepest(EqualExtentIndices))

\* LoopComputeAt has returned without a merge for a node of two loops whose
\* extents both differ from the master's.
MergesAtDeepestOrNotWitness ==
    /\ ComputedAt
    /\ Len(call.node_loops) = 2
    /\ Len(call.master_loops) = 2
    /\ EqualExtentIndices = {}
    /\ call.merges = <<>>

\* C27: when LoopComputeAt merges the node into its master at depth d, the
\* loops of node and master have equal extents at every level 0..d.
MergedLevelsEqual ==
    ComputedAt =>
        \A k \in 1..Len(call.merges) :
            \A i \in 0..call.merges[k].index :
                At(call.merges[k].src, i) = At(call.merges[k].dst, i)

----------------------------------------------------------------------------
\* The loop-nest IR and MergeLoops on it.  An Expr is a record: a Block
\* with its stmts, a For with its loop_var as name and its body as the one
\* element of stmts, or a ScheduleBlockRealize with the name of its block
\* and the loop variables its iter_values read.  Every For has a
\* loop_var of its own, so two Expr are the same node exactly when they are
\* Fors of the same loop_var.

Block(stmts) == [kind |-> "Block", name |-> "", stmts |-> stmts, iter_values |-> <<>>]

For(loop_var, body) == [kind |-> "For", name |-> loop_var, stmts |-> <<body>>, iter_values |-> <<>>]

ScheduleBlockRealize(name, iter_values) ==
    [kind |-> "ScheduleBlockRealize", name |-> name, stmts |-> <<>>, iter_values |-> iter_values]

RECURSIVE Concat(_)
Concat(seqs) == IF seqs = <<>> THEN <<>> ELSE Head(seqs) \o Concat(Tail(seqs))

\* ir_sch.GetAllBlocks(): the names of the blocks of expr in execution order.
RECURSIVE GetAllBlocks(_)
GetAllBlocks(expr) ==
    IF expr.kind = "ScheduleBlockRealize" THEN <<expr.name>>
    ELSE Concat([i \in 1..Len(expr.stmts) |-> GetAllBlocks(expr.stmts[i])])

HasBlock(expr, name) == Contains(GetAllBlocks(expr), name)

\* ir_sch.GetLoops(name): the loop_vars of the Fors around the block, from
\* the outermost inward.
RECURSIVE GetLoops(_, _)
GetLoops(expr, name) ==
    IF expr.kind = "ScheduleBlockRealize" THEN <<>>
    ELSE LET holders == {i \in 1..Len(expr.stmts) : HasBlock(expr.stmts[i], name)}
             inner == GetLoops(expr.stmts[CHOOSE i \in holders : TRUE], name)
         IN  IF holders = {} THEN <<>>
             ELSE IF expr.kind = "For" THEN <<expr.name>> \o inner
             ELSE inner

RECURSIVE HasFor(_, _)
HasFor(expr, loop_var) ==
    \/ expr.kind = "For" /\ expr.name = loop_var
    \/ \E i \in 1..Len(expr.stmts) : HasFor(expr.stmts[i], loop_var)

\* The For of loop_var in expr.
RECURSIVE FindFor(_, _)
FindFor(expr, loop_var) ==
    IF expr.kind = "For" /\ expr.name = loop_var THEN expr
    ELSE FindFor(expr.stmts[CHOOSE i \in 1..Len(expr.stmts) :
                                HasFor(expr.stmts[i], loop_var)], loop_var)

\* expr after the assignment of body to the body of the For of loop_var.
RECURSIVE SetBody(_, _, _)
SetBody(expr, loop_var, body) ==
    IF expr.kind = "For" /\ expr.name = loop_var THEN For(loop_var, body)
    ELSE [expr EXCEPT !.stmts = [i \in 1..Len(expr.stmts) |->
                                    SetBody(expr.stmts[i], loop_var, body)]]

\* ReplaceExpr(&expr, src_vars, dst_vars): every read of src_vars[i] in expr
\* becomes a read of dst_vars[i].
ReplaceVar(var, src_vars, dst_vars) ==
    IF Contains(src_vars, var)
    THEN dst_vars[CHOOSE i \in 1..Len(src_vars) : src_vars[i] = var]
    ELSE var

RECURSIVE ReplaceExpr(_, _, _)
ReplaceExpr(expr, src_vars, dst_vars) ==
    [expr EXCEPT !.iter_values = [i \in 1..Len(expr.iter_values) |->
                              ReplaceVar(expr.iter_values[i], src_vars, dst_vars)],
                 !.stmts = [i \in 1..Len(expr.stmts) |->
                              ReplaceExpr(expr.stmts[i], src_vars, dst_vars)]]

IsTarget(expr, target) == expr.kind = "For" /\ expr.name = target

Erase(stmts, i) == SubSeq(stmts, 1, i - 1) \o SubSeq(stmts, i + 1, Len(stmts))

\* RemoveExpr: a Block that holds the target among its stmts loses it; any
\* other Block, For or ScheduleBlockRealize is searched further.
RECURSIVE RemoveExpr(_, _)
RemoveExpr(expr, target) ==
    IF expr.kind = "Block"
    THEN LET found == {i \in 1..Len(expr.stmts) : IsTarget(expr.stmts[i], target)}
         IN  IF found # {}
             THEN Block(Erase(expr.stmts, CHOOSE i \in found : \A j \in found : i <= j))
             ELSE Block([i \in 1..Len(expr.stmts) |-> RemoveExpr(expr.stmts[i], target)])
    ELSE [expr EXCEPT !.stmts = [i \in 1..Len(expr.stmts) |->
                                    RemoveExpr(expr.stmts[i], target)]]

\* MergeLoops(root, src, dst, index) on the tree: src and dst are the loops
\* GetLoops returned, root the tree it leaves.
MergeLoopsIn(root, src, dst, index) ==
    IF index < 0 THEN [fatal |-> FALSE, merged |-> FALSE, root |-> root]
    ELSE IF ~(Len(src) > index) \/ ~(Len(dst) > index)
    THEN [fatal |-> TRUE, merged |-> FALSE, root |-> root]
    ELSE IF At(src, 0) = At(dst, 0) THEN [fatal |-> FALSE, merged |-> FALSE, root |-> root]
    ELSE LET src_vars == SubSeq(src, 1, index + 1)
             dst_vars == SubSeq(dst, 1, index + 1)
             src_body == ReplaceExpr(FindFor(root, At(src, index)).stmts[1],
                                     src_vars, dst_vars)
             replaced == SetBody(root, At(src, index), src_body)
             dst_body == FindFor(replaced, At(dst, index)).stmts[1]
             spliced == SetBody(replaced, At(dst, index), Block(<<src_body, dst_body>>))
         IN  [fatal |-> FALSE, merged |-> TRUE, root |-> RemoveExpr(spliced, At(src, 0))]

\* Largest number of loops around a block of a tensor as it is lowered.
MaxDepth == 2

\* Largest number of calls of MergeLoops on one tree.
MaxMerges == 2

\* The tensors with a loop nest of their own.
Tensors == {"A", "B", "C"}

\* The loop variables of the nest of a tensor, from the outermost inward.
LoopVarsOf(tensor) ==
    CASE tensor = "A" -> <<"a0", "a1", "a2", "a3">>
      [] tensor = "B" -> <<"b0", "b1", "b2", "b3">>
      [] tensor = "C" -> <<"c0", "c1", "c2", "c3">>

\* The block that initializes a reduction.
ReduceInit(tensor) ==
    CASE tensor = "A" -> "A__reduce_init"
      [] tensor = "B" -> "B__reduce_init"
      [] tensor = "C" -> "C__reduce_init"

\* The nest of a tensor from level k inward: depth loops around its block;
\* a reduction keeps its initialization block in front of the loop (or the
\* block) at level init_at, init_at = 0 standing for no such block.
RECURSIVE LoopNest(_, _, _, _)
LoopNest(tensor, k, depth, init_at) ==
    LET inner == IF k = depth
                 THEN ScheduleBlockRealize(tensor, SubSeq(LoopVarsOf(tensor), 1, depth))
                 ELSE LoopNest(tensor, k + 1, depth, init_at)
        init == ScheduleBlockRealize(ReduceInit(tensor), SubSeq(LoopVarsOf(tensor), 1, k))
    IN  For(LoopVarsOf(tensor)[k],
            Block(IF init_at = k THEN <<init, inner>> ELSE <<inner>>))

\* The depth of a nest and the level of its initialization block.
NestShapes == {n \in (1..MaxDepth) \X (0..MaxDepth) : n[2] <= n[1]}

\* The trees the lowering of three tensors leaves: one nest after the other.
LoweredTrees ==
    {Block(<<LoopNest("A", 1, a[1], a[2]), LoopNest("B", 1, b[1], b[2]),
             LoopNest("C", 1, c[1], c[2])>>) :
        a \in NestShapes, b \in NestShapes, c \in NestShapes}

InitTree ==
    /\ \E root \in LoweredTrees :
          call = [root |-> root, before |-> root, src |-> <<>>, dst |-> <<>>,
                  index |-> 0 - 1, fatal |-> FALSE, merged |-> FALSE, calls |-> 0]
    /\ pc = "tree"
    /\ edges = {}
    /\ op = <<>>
    /\ nodes_set = {}
    /\ output_nodes = {}
    /\ virtual_consumers = EmptyMap
    /\ g_node = NULL
    /\ rest = {}
    /\ tmp_node_set = <<>>
    /\ nodes_in_order = <<>>
    /\ nodes_inline = {}
    /\ master = EmptyMap
    /\ shape_dict_ = EmptyMap

\* A call MergeLoops(root, GetLoops(src), GetLoops(dst), index) by one of
\* the callers of MergeLoops.
CallMergeLoops ==
    /\ pc = "tree"
    /\ call.calls < MaxMerges
    /\ \E src_name \in Tensors, dst_name \in Tensors, index \in (0 - 1)..MaxDepth :
          /\ src_name # dst_name
          /\ LET src == GetLoops(call.root, src_name)
                 dst == GetLoops(call.root, dst_name)
                 result == MergeLoopsIn(call.root, src, dst, index)
             IN  /\ call' = [root |-> result.root, before |-> call.root, src |-> src,
                             dst |-> dst, index |-> index, fatal |-> result.fatal,
                             merged |-> result.merged, calls |-> call.calls + 1]
                 /\ pc' = IF result.fatal THEN "fatal" ELSE "tree"
    /\ PlanUnchanged

NextTree == CallMergeLoops

SpecTree == InitTree /\ [][NextTree]_vars

----------------------------------------------------------------------------
\* Properties of MergeLoops.

\* The last call of MergeLoops found different top-level loops and an index
\* within both loop lists, and has rewritten the tree.
TreeMerged == pc = "tree" /\ call.merged

Count(seq, x) == Cardinality({i \in 1..Len(seq) : seq[i] = x})

\* C21: after MergeLoops the loop of dst at index has as body the body of
\* the loop of src at index, with the loop variables of src of the levels
\* 0..index replaced by those of dst, followed by its former body; the
\* top-level loop of src is no statement of the tree; and every block that
\* was under the top-level loop of src is in the tree exactly once, under
\* the top-level loop of dst.
MergeKeepsBlocks ==
    TreeMerged =>
        LET src_vars == SubSeq(call.src, 1, call.index + 1)
            dst_vars == SubSeq(call.dst, 1, call.index + 1)
            src_body == FindFor(call.before, At(call.src, call.index)).stmts[1]
            dst_body == FindFor(call.before, At(call.dst, call.index)).stmts[1]
            moved == GetAllBlocks(FindFor(call.before, At(call.src, 0)))
        IN  /\ FindFor(call.root, At(call.dst, call.index)).stmts[1]
                  = Block(<<ReplaceExpr(src_body, src_vars, dst_vars), dst_body>>)
            /\ ~HasFor(call.root, At(call.src, 0))
            /\ \A i \in 1..Len(moved) :
                  /\ Count(GetAllBlocks(call.root), moved[i]) = 1
                  /\ Count(GetAllBlocks(FindFor(call.root, At(call.dst, 0))), moved[i]) = 1

----------------------------------------------------------------------------
\* GetMaster and SyncThreadWithShared.  The block of a node has the node as
\* its name; NULL names a block that belongs to no node of the group (a
\* staged tensor or the initialization of a reduction).

GetMasterFirstConsumer(node, inlines, node_set) ==
    LET consumers == GetConsumersInSet(node, node_set)
    IN  IF consumers = <<>> THEN NULL ELSE Head(consumers)

\* The for loop over the consumers of one candidate: the consumer returned
\* (or NULL) and the queue and visited set the loop leaves.
RECURSIVE GetMasterScan(_, _, _, _)
GetMasterScan(consumers, candidates, visited, inlines) ==
    IF consumers = <<>> THEN [ret |-> NULL, candidates |-> candidates, visited |-> visited]
    ELSE LET consumer == Head(consumers)
         IN  IF consumer \in visited
             THEN GetMasterScan(Tail(consumers), candidates, visited, inlines)
             ELSE IF consumer \in inlines
             THEN GetMasterScan(Tail(consumers), Append(candidates, consumer),
                                visited \cup {consumer}, inlines)
             ELSE [ret |-> consumer, candidates |-> candidates, visited |-> visited]

\* while (!candidates.empty())
RECURSIVE GetMasterLoop(_, _, _, _)
GetMasterLoop(candidates, visited, inlines, node_set) ==
    IF candidates = <<>> THEN NULL
    ELSE LET scan == GetMasterScan(GetConsumersInSet(Head(candidates), node_set),
                                   Tail(candidates), visited, inlines)
         IN  IF scan.ret # NULL THEN scan.ret
             ELSE GetMasterLoop(scan.candidates, scan.visited, inlines, node_set)

GetMaster(node, inlines, node_set) == GetMasterLoop(<<node>>, {}, inlines, node_set)

\* check_sync_mark with the test for m_id ahead of the test of sync_mark.
RECURSIVE check_sync_mark_master_first(_, _, _, _)
check_sync_mark_master_first(exprs_inorder, sync_mark, start, m_id) ==
    LET idx == start + 1
    IN  IF ~(idx < Len(exprs_inorder)) THEN "out_of_range"
        ELSE IF At(exprs_inorder, idx) = m_id THEN "true"
        ELSE IF At(exprs_inorder, idx) \in sync_mark THEN "false"
        ELSE check_sync_mark_master_first(exprs_inorder, sync_mark, idx, m_id)

\* check_sync_mark(start, m_id): the loop has no bound on idx, so it ends at
\* a marked block, at the block of m_id, or reads past the end of
\* exprs_inorder.
RECURSIVE check_sync_mark(_, _, _, _)
check_sync_mark(exprs_inorder, sync_mark, start, m_id) ==
    LET idx == start + 1
    IN  IF ~(idx < Len(exprs_inorder)) THEN "out_of_range"
        ELSE IF At(exprs_inorder, idx) \in sync_mark THEN "false"
        ELSE IF At(exprs_inorder, idx) = m_id THEN "true"
        ELSE check_sync_mark(exprs_inorder, sync_mark, idx, m_id)

\* master_shape of SyncThreadWithShared, as its element count.
MasterSize(master_node, shape_dict) ==
    IF IsReduction(master_node) THEN shape_dict[InputId(master_node)]
    ELSE shape_dict[master_node]

\* The nodes of the group with a block of their own.
Materialized == nodes_set \ nodes_inline

\* The orders the blocks of the materialized nodes can have in a finished
\* tree: a node that feeds another one, directly or through inlined nodes,
\* stands before it.
DataflowOrders ==
    {order \in [1..Cardinality(Materialized) -> Materialized] :
        /\ \A i, j \in DOMAIN order : i # j => order[i] # order[j]
        /\ \A i, j \in DOMAIN order :
              (i < j) => order[i] \notin Reach(InGroupEdges, {order[j]})}

InsertAt(seq, i, x) == SubSeq(seq, 1, i) \o <<x>> \o SubSeq(seq, i + 1, Len(seq))

\* The block lists ir_sch.GetAllBlocks() can return: the blocks of the
\* materialized nodes and at most one block of no node.
BlockLists ==
    DataflowOrders
        \cup {InsertAt(order, i, NULL) : order \in DataflowOrders,
                                         i \in 0..Cardinality(Materialized)}

SyncOps == {"elementwise_add", "reduce_sum"}

\* The keys of shape_dict the function can look up.
SyncShapeKeys == NodeIds \cup {InputId(n) : n \in Reductions}

InitSync ==
    /\ edges \in Dags
    /\ nodes_set = NodeIds
    /\ op \in [NodeIds -> SyncOps]
    /\ output_nodes \in SUBSET nodes_set
    /\ WellFormedOutputs(edges, nodes_set, output_nodes)
    /\ nodes_inline \in SUBSET {n \in nodes_set \ output_nodes : ~IsReduction(n)}
    /\ shape_dict_ \in [SyncShapeKeys -> Numels]
    /\ \E exprs_inorder \in BlockLists :
          call = [exprs_inorder |-> exprs_inorder, idx |-> 0, sync_mark |-> {},
                  scope |-> [n \in Materialized |-> "default"], attached |-> {},
                  barriers |-> <<>>, out_of_range |-> FALSE]
    /\ pc = "compute_at"
    /\ virtual_consumers = EmptyMap
    /\ g_node = NULL
    /\ rest = {}
    /\ tmp_node_set = <<>>
    /\ nodes_in_order = <<>>
    /\ master = EmptyMap

\* The head of LoopComputeAt for the next materialized node: the buffer of
\* a node that is no output of the group becomes local.
LoopComputeAtSetBuffer ==
    /\ pc = "compute_at"
    /\ call.attached # Materialized
    /\ LET node == Head(SortById(Materialized \ call.attached))
       IN  call' = [call EXCEPT !.attached = @ \cup {node},
                                !.scope[node] = IF node \notin output_nodes
                                                THEN "local" ELSE @]
    /\ UNCHANGED pc
    /\ PlanUnchanged

\* SyncThreadWithShared is called after the last LoopComputeAt.
CallSyncThreadWithShared ==
    /\ pc = "compute_at"
    /\ call.attached = Materialized
    /\ pc' = "sync"
    /\ UNCHANGED call
    /\ PlanUnchanged

\* One iteration of for (idx = 0; idx < exprs_inorder.size() - 1; ++idx).
\* A read past the end of exprs_inorder is undefined: the call of
\* check_sync_mark may return either value, or the process stops.
SyncThreadWithSharedVisit ==
    /\ pc = "sync"
    /\ call.idx < Len(call.exprs_inorder) - 1
    /\ LET node == At(call.exprs_inorder, call.idx)
           master_node == GetMaster(node, nodes_inline, nodes_set)
           skip == \/ node \notin nodes_set
                   \/ master_node = NULL
                   \/ shape_dict_[node] = MasterSize(master_node, shape_dict_)
           mark == check_sync_mark(call.exprs_inorder, call.sync_mark, call.idx, master_node)
       IN  IF skip
           THEN /\ call' = [call EXCEPT !.idx = @ + 1]
                /\ UNCHANGED pc
           ELSE \E synced \in (IF mark = "out_of_range" THEN {"true", "false", "fatal"}
                               ELSE {mark}) :
                   /\ call' = [call EXCEPT
                                 !.idx = @ + 1,
                                 !.scope[node] = "shared",
                                 !.out_of_range = @ \/ mark = "out_of_range",
                                 !.barriers = IF synced = "true"
                                              THEN Append(@, master_node) ELSE @,
                                 !.sync_mark = IF synced = "true"
                                               THEN @ \cup {master_node} ELSE @]
                   /\ pc' = IF synced = "fatal" THEN "fatal" ELSE pc
    /\ PlanUnchanged

SyncThreadWithSharedReturn ==
    /\ pc = "sync"
    /\ ~(call.idx < Len(call.exprs_inorder) - 1)
    /\ pc' = "synced"
    /\ UNCHANGED call
    /\ PlanUnchanged

NextSync ==
    \/ LoopComputeAtSetBuffer
    \/ CallSyncThreadWithShared
    \/ SyncThreadWithSharedVisit
    \/ SyncThreadWithSharedReturn

SpecSync == InitSync /\ [][NextSync]_vars

----------------------------------------------------------------------------
\* Properties of SyncThreadWithShared.

\* The nodes SyncThreadWithShared has made shared with node m as master.
SharedUnder(m) ==
    {n \in Materialized :
        /\ call.scope[n] = "shared"
        /\ GetMaster(n, nodes_inline, nodes_set) = m}

\* C23: over one run of SyncThreadWithShared no master gets more than one
\* barrier after its last loop.
OneBarrierPerMaster ==
    pc \in {"sync", "synced"} =>
        \A i, j \in 1..Len(call.barriers) :
            call.barriers[i] = call.barriers[j] => i = j

\* SyncThreadWithShared has returned after two nodes of an element count
\* other than their common master's became shared, with one barrier.
OneBarrierPerMasterWitness ==
    /\ pc = "synced"
    /\ \E m \in Materialized :
          /\ Cardinality(SharedUnder(m)) = 2
          /\ call.barriers = <<m>>

\* C28: the scan of check_sync_mark never reads exprs_inorder at or past
\* its end.
ScanStaysInList ==
    pc \in {"sync", "synced", "fatal"} => ~call.out_of_range

\* SyncThreadWithShared has returned after a scan that went over a block
\* of another node and ended at the block of the master.
ScanStaysInListWitness ==
    /\ pc = "synced"
    /\ ~call.out_of_range
    /\ Len(call.barriers) = 1
    /\ \E n \in SharedUnder(call.barriers[1]) :
          \E i, j \in 1..Len(call.exprs_inorder) :
             /\ call.exprs_inorder[i] = n
             /\ call.exprs_inorder[j] = call.barriers[1]
             /\ j > i + 1
             /\ call.exprs_inorder[i + 1] # NULL

\* C29: after the calls of LoopComputeAt and the run of
\* SyncThreadWithShared the buffer of no output node of the group is local
\* or shared.
OutputNeverOnChip ==
    pc = "synced" =>
        \A n \in output_nodes : call.scope[n] \notin {"local", "shared"}

-----------------------------------------------------------------------------
\* LoopAssignReduce and InsertSyncThread: what the staging of a reduction
\* (the tensors "<id>_0" and "<id>_1" of tensor_map) makes of the loops of a
\* node computed at the reduction, and of the barrier behind the reduction.

\* The axes both functions work with: an empty "dim" attribute stands for
\* every axis of the reduction input.
AxesOrAll(shape, axes) ==
    IF axes = <<>> THEN [i \in 1..Len(shape) |-> i - 1] ELSE axes

\* post of InsertSyncThread's loop: "" for idx 0, then "_" + to_string(idx - 1).
StagePost(idx) ==
    CASE idx = 0 -> ""
      [] idx = 1 -> "_0"
      [] OTHER   -> "_1"

RECURSIVE InsertSyncThreadLoopSecondStage(_, _, _)
InsertSyncThreadLoopSecondStage(idx, tensor_map, blocks) ==
    IF StagePost(idx) \notin tensor_map THEN FALSE
    ELSE IF StagePost(idx) \notin blocks THEN FALSE
    ELSE IF idx > 1 THEN TRUE
    ELSE InsertSyncThreadLoopSecondStage(idx + 1, tensor_map, blocks)

\* The loop of InsertSyncThread over the reduction's tensors: TRUE when it
\* reaches ir_sch.SyncThreads, FALSE when it returns at a tensor that
\* tensor_map does not hold or that has no block.  tensor_map and blocks are
\* the posts of the reduction's tensors in tensor_map and with a block.
RECURSIVE InsertSyncThreadLoop(_, _, _)
InsertSyncThreadLoop(idx, tensor_map, blocks) ==
    IF StagePost(idx) \notin tensor_map THEN FALSE
    ELSE IF StagePost(idx) \notin blocks THEN FALSE
    ELSE IF idx > 0 THEN TRUE
    ELSE InsertSyncThreadLoop(idx + 1, tensor_map, blocks)

\* InsertSyncThread(ir_sch, node, shape_dict, tensor_map): whether it puts a
\* barrier behind the reduction with input shape and "dim" attribute axes.
InsertSyncThread(shape, axes, tensor_map, blocks) ==
    IF ~WithoutLastDimInReduce(shape, AxesOrAll(shape, axes)) THEN FALSE
    ELSE InsertSyncThreadLoop(0, tensor_map, blocks)

\* The end of MergeReduceToReduce for a reduction over the last dimension:
\* it knows the stagings "_1" and "_0" and no other.
MergeReduceToReduceFatal(shape, axes, tensor_map) ==
    /\ ~WithoutLastDimInReduce(shape, AxesOrAll(shape, axes))
    /\ "_1" \notin tensor_map
    /\ "_0" \notin tensor_map

\* MergeReduceLoop for a Reduction node, once its calls of MergeLoops are
\* through: with a Reduction master other than the node it hands over to
\* MergeReduceToReduce and returns; else it goes on to InsertSyncThread.
MergeReduceLoopSync(shape, axes, tensor_map, blocks, master_kind) ==
    IF master_kind = "reduction"
    THEN [via |-> "MergeReduceToReduce", barrier |-> FALSE,
          fatal |-> MergeReduceToReduceFatal(shape, axes, tensor_map)]
    ELSE [via |-> "InsertSyncThread",
          barrier |-> InsertSyncThread(shape, axes, tensor_map, blocks),
          fatal |-> FALSE]

\* ir_sch.Split(loop, factors) with a list of factors: the loop at pos
\* becomes one loop for every factor.
SplitBy(nest, pos, factors) ==
    IF ~HasLoop(nest, pos) \/ factors = <<>> THEN BadNest
    ELSE Nest(SubSeq(nest.loops, 1, pos) \o factors
                  \o SubSeq(nest.loops, pos + 2, Len(nest.loops)))

\* The factors LoopAssignReduce takes from the reduction's loops for a node
\* with the shape of the reduction's output: the extents of rloops as long
\* as their product stays within the extent of the node's loop.
RECURSIVE MasterLoopFactors(_, _, _, _)
MasterLoopFactors(rloops, idx, extend, extent) ==
    IF idx >= Len(rloops) THEN <<>>
    ELSE IF extend * At(rloops, idx) > extent THEN <<>>
    ELSE <<At(rloops, idx)>>
             \o MasterLoopFactors(rloops, idx + 1, extend * At(rloops, idx), extent)

\* if (nloops.size() < rloops.size()) ir_sch.Split(nloops[0], {1, -1})
PadToReducer(nest, rloops) ==
    IF ~nest.ok \/ ~(Len(nest.loops) < Len(rloops)) THEN nest
    ELSE IF ~HasLoop(nest, 0) THEN BadNest
    ELSE Nest(<<1>> \o nest.loops)

Assigned(path, fatal, nest) ==
    [path |-> path, fatal |-> fatal, loops |-> nest.loops, bad_loop |-> ~nest.ok]

\* The branch of LoopAssignReduce for a reduction that has neither "_1" nor
\* "_0", were the branch without the last dimension written as the branch
\* with it is.
UnstagedWithoutLastAsWithLast(shape, axes, rloops, max_num_threads) ==
    Assigned("fatal", TRUE, Nest(<<>>))

\* The branch of LoopAssignReduce for a reduction without the last dimension
\* and without "_1": the loops are ordered by LoopOrderAssignReduce, whether
\* tensor_map holds "_0" or not.
UnstagedWithoutLast(shape, axes, rloops, max_num_threads) ==
    Assigned("LoopOrderAssignReduce", FALSE,
             PadToReducer(LoopOrderAssignReduce(Nest(shape), axes, max_num_threads, FALSE),
                          rloops))

\* LoopAssignReduce(ir_sch, node, reducer, target, tensor_map, shape_dict):
\* node_size is the element count of the node's output, which is the extent
\* of its flattened loop; shape and axes are the reducer's input shape and
\* "dim" attribute; rloops are the extents of the loops of the reducer's
\* tensor the branch reads.
LoopAssignReduce(is_reduction, node_size, shape, axes_attr, tensor_map, rloops, max_num_threads) ==
    LET axes == AxesOrAll(shape, axes_attr)
        flat == Nest(<<node_size>>)
    IN  IF is_reduction THEN Assigned("return", FALSE, flat)
        ELSE IF Product(shape) # node_size
        THEN Assigned("master_loops", FALSE,
                      SplitBy(flat, 0, MasterLoopFactors(rloops, 0, 1, node_size)))
        ELSE IF WithoutLastDimInReduce(shape, axes)
        THEN IF "_1" \in tensor_map
             THEN LET plan == LoopAssignReduceWithoutLast(shape, axes, max_num_threads)
                  IN  Assigned("LoopAssignReduceWithoutLast", plan.fatal,
                               PadToReducer(IF plan.bad_loop THEN BadNest
                                            ELSE Nest(plan.loops), rloops))
             ELSE UnstagedWithoutLast(shape, axes, rloops, max_num_threads)
        ELSE IF "_1" \in tensor_map
        THEN LET plan == LoopAssignReduceWithLast(shape, axes, max_num_threads)
             IN  Assigned("LoopAssignReduceWithLast", plan.fatal,
                          PadToReducer(IF plan.bad_loop THEN BadNest
                                       ELSE Nest(plan.loops), rloops))
        ELSE IF "_0" \in tensor_map
        THEN Assigned("stage_loops", FALSE, SplitBy(flat, 0, rloops))
        ELSE Assigned("fatal", TRUE, Nest(<<>>))

\* The posts of the staged tensors of a reduction.
StagePosts == {"_0", "_1"}

\* What a master of a Reduction node can be to MergeReduceLoop.
MasterKinds == {"self", "non_reduction", "reduction"}

\* A reduction as the lowering leaves it: its input shape, its "dim"
\* attribute, the tensors of it that tensor_map holds and those of them that
\* have a block.  The reduction's own tensor is always there.
InitStage ==
    /\ \E shape \in LoopLists, staged \in SUBSET StagePosts :
         \E axes \in AxesOf(shape) \cup {<<>>}, with_block \in SUBSET staged :
            call = [shape |-> shape, axes |-> axes,
                    tensor_map |-> staged \cup {""}, blocks |-> with_block \cup {""},
                    master_kind |-> "none", sync |-> <<>>, assigned |-> <<>>,
                    is_reduction |-> FALSE, node_size |-> 0, rloops |-> <<>>,
                    max_num_threads |-> 0]
    /\ pc = "stage"
    /\ edges = {}
    /\ op = <<>>
    /\ nodes_set = {}
    /\ output_nodes = {}
    /\ virtual_consumers = EmptyMap
    /\ g_node = NULL
    /\ rest = {}
    /\ tmp_node_set = <<>>
    /\ nodes_in_order = <<>>
    /\ nodes_inline = {}
    /\ master = EmptyMap
    /\ shape_dict_ = EmptyMap

\* MergeReduceLoop(ir_sch, node, master, shape_dict, tensor_map) for the
\* reduction.
CallMergeReduceLoopSync ==
    /\ pc = "stage"
    /\ \E master_kind \in MasterKinds :
          call' = [call EXCEPT
                     !.master_kind = master_kind,
                     !.sync = MergeReduceLoopSync(call.shape, call.axes, call.tensor_map,
                                                  call.blocks, master_kind)]
    /\ pc' = "merged_reduce"
    /\ PlanUnchanged

\* LoopAssignReduce(ir_sch, node, reducer, target, tensor_map, shape_dict)
\* for a node of the group with the reduction as reducer.
CallLoopAssignReduce ==
    /\ pc = "stage"
    /\ \E is_reduction \in BOOLEAN, node_size \in Numels \cup {Product(call.shape)},
          rloops \in LoopLists, max_num_threads \in Threads :
          call' = [call EXCEPT
                     !.is_reduction = is_reduction,
                     !.node_size = node_size,
                     !.rloops = rloops,
                     !.max_num_threads = max_num_threads,
                     !.assigned = LoopAssignReduce(is_reduction, node_size, call.shape,
                                                   call.axes, call.tensor_map, rloops,
                                                   max_num_threads)]
    /\ pc' = "assigned"
    /\ PlanUnchanged

NextStage ==
    \/ CallMergeReduceLoopSync
    \/ CallLoopAssignReduce

SpecStage == InitStage /\ [][NextStage]_vars

-----------------------------------------------------------------------------
\* Properties of InsertSyncThread and LoopAssignReduce.

\* The last dimension of the reduction input is no reduce axis.
LastDimKept ==
    LET axes == AxesOrAll(call.shape, call.axes)
    IN  ~Contains(axes, Len(call.shape) - 1) /\ ~Contains(axes, 0 - 1)

\* The product of the extents behind the last reduce axis.
ExtentsBehindAxes ==
    LET axes == AxesOrAll(call.shape, call.axes)
    IN  Product(SubSeq(call.shape, Back(axes) + 2, Len(call.shape)))

StageZeroHasBlock == "_0" \in call.tensor_map /\ "_0" \in call.blocks

\* C24 as claimed: after MergeReduceLoop for a Reduction node there is a
\* barrier behind it exactly when its axes leave out the last dimension and
\* its tensor "<id>_0" has a block, whatever the master.
BarrierWhateverMaster ==
    pc = "merged_reduce" =>
        (call.sync.barrier <=> (LastDimKept /\ StageZeroHasBlock))

\* C24: after MergeReduceLoop for a Reduction node there is a barrier behind
\* it exactly when the master is the node itself or no Reduction, its axes
\* leave out the last dimension, the extents behind its last reduce axis
\* multiply to more than 1, and its tensor "<id>_0" has a block; with a
\* Reduction master other than itself InsertSyncThread is not called.
BarrierUnlessReduceMaster ==
    pc = "merged_reduce" =>
        /\ call.sync.barrier <=>
              /\ call.master_kind # "reduction"
              /\ LastDimKept
              /\ ExtentsBehindAxes > 1
              /\ StageZeroHasBlock
        /\ call.master_kind = "reduction" => call.sync.via = "MergeReduceToReduce"

BarrierUnlessReduceMasterWitness ==
    /\ pc = "merged_reduce"
    /\ call.master_kind = "reduction"
    /\ LastDimKept
    /\ ExtentsBehindAxes > 1
    /\ StageZeroHasBlock
    /\ ~call.sync.barrier

\* LoopAssignReduce ran for a non-Reduction node with as many elements as
\* the reducer's input, and the reducer has neither "_0" nor "_1".
UnstagedAssigned ==
    /\ pc = "assigned"
    /\ ~call.is_reduction
    /\ call.node_size = Product(call.shape)
    /\ "_0" \notin call.tensor_map
    /\ "_1" \notin call.tensor_map

\* C25 as claimed: for a reducer with neither "<id>_0" nor "<id>_1" in
\* tensor_map LoopAssignReduce ends in the fatal error, in the branch
\* without the last dimension and in the branch with it.
UnstagedIsFatal ==
    UnstagedAssigned => call.assigned.fatal

\* C25: for a reducer with neither "<id>_0" nor "<id>_1" in tensor_map
\* LoopAssignReduce ends in the fatal error exactly in the branch with the
\* last dimension; in the branch without it the node's loops are ordered by
\* LoopOrderAssignReduce and no error is raised.
UnstagedIsFatalWithLast ==
    UnstagedAssigned =>
        /\ call.assigned.fatal <=>
              ~WithoutLastDimInReduce(call.shape, AxesOrAll(call.shape, call.axes))
        /\ ~call.assigned.fatal =>
              /\ call.assigned.path = "LoopOrderAssignReduce"
              /\ ~call.assigned.bad_loop

UnstagedIsFatalWithLastWitness ==
    /\ UnstagedAssigned
    /\ WithoutLastDimInReduce(call.shape, AxesOrAll(call.shape, call.axes))
    /\ ~call.assigned.fatal
    /\ Len(call.assigned.loops) > 1

====
